---- MODULE Spec2Model ----
(***************************************************************************)
(* DescrptSeAtten (src/deepmd/descriptor/se_atten.py): the smooth          *)
(* attention descriptor.  The descriptor object's fields are the           *)
(* variables; build, init_variables and build_type_exclude_mask are the    *)
(* actions.  Real-valued tensors are modelled in exact integer fixed-point *)
(* arithmetic (unit 1/FX), attention weights as exact fractions.           *)
(***************************************************************************)
EXTENDS Integers, Sequences, FiniteSets, TLC

VARIABLES
    \* constructor arguments (DescrptSeAtten.__init__)
    ntypes, sel_a, filter_neuron, n_axis_neuron, att_n, attn_layer,
    attn_dotr, attn_mask, type_one_side, exclude_types, original_sel,
    compress,
    \* parameters held by the descriptor
    davg, dstd, seed, beta, gamma, attention_layer_variables,
    embedding_net_variables,
    \* fields assigned by build
    graph, t_avg, t_std, descrpt, nei_type_vec, nmask, negative_mask,
    atype_nloc, attn_weight, angular_weight, attn_weight_final, dout, qmat,
    \* the tensors of the graph of the last build, evaluated on feed
    run,
    \* the value returned by the last build_type_exclude_mask call
    mask,
    \* the last call: operation, arguments, outcome
    call,
    \* the frame the graph is evaluated on: what prod_env_mat_a_mix returns
    \* for the fed coordinates, types and box, and the kernel device
    feed,
    \* the frozen model (graph, graph_def) init_variables is given
    frozen,
    \* the system _compute_dstats_sys_smth is given: what the statistics
    \* session returns for it (dd_all), its types and its natoms vectors
    system,
    \* the multi-task flag and the statistics accumulated in multi-task mode
    multi_task, stat_dict

cfgVars == <<ntypes, sel_a, filter_neuron, n_axis_neuron, att_n, attn_layer,
             attn_dotr, attn_mask, type_one_side, exclude_types,
             original_sel, compress>>
parVars == <<davg, dstd, seed, beta, gamma, attention_layer_variables,
             embedding_net_variables>>
bldVars == <<graph, t_avg, t_std, descrpt, nei_type_vec, nmask,
             negative_mask, atype_nloc, attn_weight, angular_weight,
             attn_weight_final, dout, qmat>>
envVars == <<feed, frozen, system>>
statVars == <<multi_task, stat_dict>>
vars == <<cfgVars, parVars, bldVars, run, mask, call, envVars, statVars>>

\* Python's None, and a value that is not None
None == <<>>
Some(x) == <<x>>
Get(o) == o[1]

(***************************************************************************)
(* Bounds of the model.                                                    *)
(***************************************************************************)
\* number of atom types
MaxNtypes == 2
\* number of local atoms of a frame
MaxNloc == 2
\* number of neighbor slots (sel)
MaxNnei == 2
\* number of attention layers
MaxAttnLayer == 2

\* forces a function to be evaluated once (its value is f)
Force(f) == IF f = f THEN f ELSE f

RECURSIVE SolidOver(_, _, _)
RECURSIVE Solid(_, _)
\* the function f over S with its values evaluated to depth d
SolidOver(f, S, d) ==
    IF S = {} THEN <<>>
    ELSE LET x == CHOOSE y \in S : TRUE
         IN (x :> Solid(f[x], d - 1)) @@ SolidOver(f, S \ {x}, d)

\* a tensor of rank d as the values it holds (its value is f)
Solid(f, d) == IF d = 0 THEN f ELSE SolidOver(f, DOMAIN f, d)

\* attention weights num / den as the values they hold
SolidWeights(w) == [num |-> Solid(w.num, 2), den |-> Solid(w.den, 1)]

\* per-atom fractions num / den as the values they hold
SolidOut(t) ==
    Solid([a \in DOMAIN t |-> [num |-> Solid(t[a].num, 1), den |-> t[a].den]], 1)

RECURSIVE SumSeq(_)
SumSeq(s) == IF s = <<>> THEN 0 ELSE Head(s) + SumSeq(Tail(s))

RECURSIVE Pow2(_)
Pow2(n) == IF n <= 0 THEN 1 ELSE 2 * Pow2(n - 1)

\* numpy zeros / ones of one row
Zeros(n) == [i \in 1..n |-> 0]
Ones(n) == [i \in 1..n |-> 1]

\* filter_neuron[-1]: the embedding width W
LastNeuron(fn) == fn[Len(fn)]

\* ndescrpt = nnei * 4
ndescrpt_of(sel) == sel[1] * 4

\* the widths of the embedding net of the models checked (neuron)
Neuron == <<3>>

(***************************************************************************)
(* Output of the environment-matrix op prod_env_mat_a_mix for one frame:   *)
(* flat, atom-major tensors indexed from 0.  A slot that holds no neighbor *)
(* has type ntypes, nmask 0 and zero features (the statistics are          *)
(* avg = 0, std = 1); the existing neighbors come first.                   *)
(***************************************************************************)
\* raw 4-wide features (r, dx, dy, dz) the frames are made of
FeatMenu == << <<2, 1, 0, 0>>, <<1, 3, 4, 0>>, <<1, 0, 0, -1>>,
               <<2, -1, 1, 0>>, <<1, 1, 1, 1>> >>

FrameOf(nt, nnei, nloc, at, cnt) ==
    [ nloc  |-> nloc,
      atype |-> at,
      nei_type_vec |-> [j \in 0..(nloc * nnei - 1) |->
            IF (j % nnei) < cnt[j \div nnei]
            THEN (at[j \div nnei] + (j \div nnei) + (j % nnei)) % nt
            ELSE nt],
      nmask |-> [j \in 0..(nloc * nnei - 1) |->
            IF (j % nnei) < cnt[j \div nnei] THEN 1 ELSE 0],
      descrpt |-> [j \in 0..(nloc * nnei * 4 - 1) |->
            IF ((j \div 4) % nnei) < cnt[(j \div 4) \div nnei]
            THEN FeatMenu[(((j \div 4) + 2 * at[(j \div 4) \div nnei])
                            % Len(FeatMenu)) + 1][(j % 4) + 1]
            ELSE 0] ]

Frames(nt, nnei) ==
    UNION { { FrameOf(nt, nnei, nloc, at, cnt) :
                at \in [0..(nloc - 1) -> 0..(nt - 1)],
                cnt \in [0..(nloc - 1) -> 0..nnei] } :
            nloc \in 1..MaxNloc }

(***************************************************************************)
(* tf.nn.embedding_lookup of one row.  An index outside the table is an    *)
(* InvalidArgument error of the CPU kernel and a row of zeros of the GPU   *)
(* kernel: the lookup yields the zero row, InRange tells which case it is. *)
(***************************************************************************)
InRange(rows, idx) == idx >= 0 /\ idx < rows
embedding_lookup(table, rows, idx, zero) ==
    IF InRange(rows, idx) THEN table[idx] ELSE zero

(***************************************************************************)
(* build_type_exclude_mask                                                 *)
(***************************************************************************)
\* type_mask with the two members of the tested pair exchanged
type_mask_swapped(excl, nt) ==
    [ idx \in 0..(nt * (nt + 1) - 1) |->
        LET tt_j == idx \div (nt + 1)
            tt_i == idx % (nt + 1)
        IN IF <<tt_j, tt_i>> \notin excl THEN 1 ELSE 0 ]

\* type_mask whose last column repeats the column of type 0
type_mask_SentinelAsType0(excl, nt) ==
    [ idx \in 0..(nt * (nt + 1) - 1) |->
        LET tt_j == idx \div (nt + 1)
            tt_i == (idx % (nt + 1)) % nt
        IN IF <<tt_i, tt_j>> \notin excl THEN 1 ELSE 0 ]

\* the dense lookup table, flattened row-major: ntypes rows (tt_j) of
\* ntypes + 1 entries (tt_i)
type_mask(excl, nt) ==
    [ idx \in 0..(nt * (nt + 1) - 1) |->
        LET tt_j == idx \div (nt + 1)
            tt_i == idx % (nt + 1)
        IN IF <<tt_i, tt_j>> \notin excl THEN 1 ELSE 0 ]


\* mask[a][d], a in 0..shape0-1, d in 0..ndescrpt-1
build_type_exclude_mask(excl, nt, sel, ndescrpt, atype, shape0, ntv) ==
    LET tm == Force(type_mask(excl, nt))
        idx_i(a, d) == atype[a] * (nt + 1)
        idx_j(a, d) == ntv[a * sel[1] + (d \div (ndescrpt \div sel[1]))]
    IN [ a \in 0..(shape0 - 1) |->
           [ d \in 0..(ndescrpt - 1) |->
               embedding_lookup(tm, nt * (nt + 1), idx_i(a, d) + idx_j(a, d), 0) ] ]

(***************************************************************************)
(* init_variables                                                          *)
(***************************************************************************)
\* A name of the frozen graph is the sequence of its pieces; a suffix is a
\* sequence of characters.
Digit == <<"0", "1", "2", "3", "4", "5", "6", "7", "8", "9">>

RECURSIVE Digits(_)
\* "{}".format(n) of a number n >= 0
Digits(n) ==
    IF n < 10 THEN <<Digit[n + 1]>>
    ELSE Digits(n \div 10) \o <<Digit[(n % 10) + 1]>>

\* f"attention_layer_0{suffix}/layer_normalization/{param}"
NormKey0(suffix, param) ==
    <<"attention_layer_", "0">> \o suffix \o <<"/layer_normalization", "/", param>>

\* NormKeyI with the index of the normalization dropped
NormKeyI_NoIndex(i, suffix, param) ==
    <<"attention_layer_">> \o Digits(i) \o suffix
        \o <<"/layer_normalization", "/", param>>

\* "attention_layer_{}{}/layer_normalization_{}/{param}".format(i, suffix, i)
NormKeyI(i, suffix, param) ==
    <<"attention_layer_">> \o Digits(i) \o suffix
        \o <<"/layer_normalization", "_">> \o Digits(i) \o <<"/", param>>

\* the key init_variables reads for layer i
NormKey(i, suffix, param) ==
    IF i = 0 THEN NormKey0(suffix, param) ELSE NormKeyI(i, suffix, param)

NoError == [kind |-> "ok", key |-> <<>>]
KeyError(k) == [kind |-> "KeyError", key |-> k]

IsDigit(c) == \E d \in 1..10 : Digit[d] = c

RECURSIVE SkipDigits(_, _)
\* the first position from pos on that holds no digit
SkipDigits(k, pos) ==
    IF pos <= Len(k) /\ IsDigit(k[pos]) THEN SkipDigits(k, pos + 1) ELSE pos

\* the name matches attention_layer_\d+{suffix}/...
InAttentionScope(k, suffix) ==
    /\ Len(k) >= 2
    /\ k[1] = "attention_layer_"
    /\ IsDigit(k[2])
    /\ LET q == SkipDigits(k, 2)
       IN /\ Len(k) >= q + Len(suffix)
          /\ SubSeq(k, q, q + Len(suffix) - 1) = suffix
          /\ k[q + Len(suffix)] = "/layer_normalization"

\* get_attention_layer_variables_from_graph_def: the attention-layer
\* entries of the frozen graph whose scope carries the suffix
get_attention_layer_variables_from_graph_def(graph_def, suffix) ==
    LET keep == { k \in DOMAIN graph_def.attention : InAttentionScope(k, suffix) }
    IN [ k \in keep |-> graph_def.attention[k] ]

\* DescrptSeA.init_variables: the embedding-net entries of the frozen graph
super_init_variables(graph_def, suffix) ==
    Some([suffix |-> suffix, net |-> graph_def.embedding])

\* the assignment of one looked-up row, accumulating instead of overwriting
AssignRow_Accumulate(arr, i, row) ==
    [arr EXCEPT ![i] = [w \in DOMAIN row |-> arr[i][w] + row[w]]]

\* self.beta[i] = row
AssignRow(arr, i, row) == [arr EXCEPT ![i] = row]

RECURSIVE RestoreNorm(_, _, _, _, _, _)
\* The lookups of lines 1027-1044 in program order: step n reads beta
\* (n even) or gamma (n odd) of layer n \div 2; the first missing key raises
\* KeyError and leaves the rows assigned so far.
RestoreNorm(b, g, alv, suffix, n, layers) ==
    IF n >= 2 * layers THEN [beta |-> b, gamma |-> g, err |-> NoError]
    ELSE LET i == n \div 2
             prm == IF n % 2 = 0 THEN "beta" ELSE "gamma"
             key == NormKey(i, suffix, prm)
         IN IF key \notin DOMAIN alv
            THEN [beta |-> b, gamma |-> g, err |-> KeyError(key)]
            ELSE IF prm = "beta"
                 THEN RestoreNorm(AssignRow(b, i, alv[key]), g, alv, suffix,
                                  n + 1, layers)
                 ELSE RestoreNorm(b, AssignRow(g, i, alv[key]), alv, suffix,
                                  n + 1, layers)

\* the fields init_variables leaves behind, from the fields it finds
init_variables(b, g, layers, graph_def, suffix) ==
    LET env == super_init_variables(graph_def, suffix)
        alv == get_attention_layer_variables_from_graph_def(graph_def, suffix)
        r == IF layers > 0 THEN RestoreNorm(b, g, alv, suffix, 0, layers)
             ELSE [beta |-> b, gamma |-> g, err |-> NoError]
    IN [ embedding_net_variables |-> env,
         attention_layer_variables |-> Some(alv),
         beta |-> r.beta, gamma |-> r.gamma, err |-> r.err ]

\* name suffixes of multi-instance models
Suffixes == { <<>>, <<"_", "1">> }

\* the frozen graphs: saved from a model of some number of layers under
\* some suffix, with any of its normalization entries missing
CkptRow(vid, i, prm, width) ==
    [w \in 1..width |-> vid + i + w + (IF prm = "gamma" THEN 2 ELSE 0)]

\* number of normalization entries a frozen graph may lack
MaxMissing == 1

SavedEntries(lay) == (0..(lay - 1)) \X {"beta", "gamma"}

\* the name a frozen graph holds the normalization parameter of layer i
\* under: attention_layer_{i}{suffix}/layer_normalization{_i}/{beta,gamma},
\* the part _{i} absent for layer 0
SavedKey(i, sfx, prm) ==
    <<"attention_layer_">> \o Digits(i) \o sfx \o <<"/layer_normalization">>
        \o (IF i = 0 THEN <<>> ELSE <<"_">> \o Digits(i)) \o <<"/", prm>>

GraphDefOf(vid, sfx, present, width) ==
    [ embedding |-> vid,
      attention |->
        [ k \in { SavedKey(e[1], sfx, e[2]) : e \in present } |->
            LET e == CHOOSE x \in present : SavedKey(x[1], sfx, x[2]) = k
            IN CkptRow(vid, e[1], e[2], width) ] ]

GraphDefs(width) ==
    UNION { { GraphDefOf(vid, sfx, SavedEntries(lay) \ missing, width) :
                missing \in { m \in SUBSET SavedEntries(lay) :
                                Cardinality(m) <= MaxMissing },
                vid \in 1..2 } :
            lay \in 0..MaxAttnLayer, sfx \in Suffixes }

AllGraphDefs == GraphDefs(LastNeuron(Neuron))

(***************************************************************************)
(* Arithmetic of the graph.  A real number is an integer count of units;   *)
(* a normalized quantity (a unit vector, a cosine) counts units of 1/FX.   *)
(***************************************************************************)
\* resolution of normalized quantities
FX == 2
\* resolution of the exponential: exp of the largest score is 2^ExpBits
ExpBits == 8

Max(a, b) == IF a >= b THEN a ELSE b
Min(a, b) == IF a <= b THEN a ELSE b
Clamp(x, lo, hi) == Max(lo, Min(hi, x))
\* division rounding toward zero
Quot(a, b) == IF a >= 0 THEN a \div b ELSE -((-a) \div b)

RECURSIVE Sum(_, _, _)
\* f[lo] + ... + f[hi]
Sum(f, lo, hi) == IF lo > hi THEN 0 ELSE f[lo] + Sum(f, lo + 1, hi)

RECURSIVE ISqrtIn(_, _, _)
ISqrtIn(n, lo, hi) ==
    IF lo >= hi THEN lo
    ELSE LET mid == (lo + hi + 1) \div 2
         IN IF mid * mid <= n THEN ISqrtIn(n, mid, hi) ELSE ISqrtIn(n, lo, mid - 1)
\* the integer part of the square root
ISqrt(n) == ISqrtIn(n, 0, Min(n, 4096))

\* the dot product of two vectors over 1..n
Dot(u, v, n) == Sum([c \in 1..n |-> u[c] * v[c]], 1, n)

\* tf.nn.l2_normalize along the last axis: v / sqrt(max(sum(v^2), eps)),
\* in units of 1/FX
l2_normalize(v, n) ==
    LET nrm == Max(ISqrt(Dot(v, v, n)), 1)
    IN [c \in 1..n |-> Quot(v[c] * FX, nrm)]

(***************************************************************************)
(* Network parameters.  The values of the trainable variables are what the *)
(* session holds; a variable is identified by its scope name and the       *)
(* values restored by init_variables (wid) when there are any.             *)
(***************************************************************************)
ScopeCode(name) ==
    CASE name = "filter_type_all" -> 0
      [] name = "_ebd_of_ebd" -> 1
      [] name = "_two_side_ebd" -> 2
      [] name = "c_query" -> 3
      [] name = "c_key" -> 4
      [] name = "c_value" -> 5
      [] name = "c_out" -> 6
      [] name = "embedding_compose_s" -> 7
      [] name = "embedding_compose_n" -> 8
      [] OTHER -> 9

\* matrix[i][o] and bias[o] of the layer lay of scope name
Matrix(name, lay, wid, i, o) ==
    ((ScopeCode(name) + 2 * lay + wid + 2 * i + o) % 3) - 1
Bias(name, lay, wid, o) == (ScopeCode(name) + lay + wid + o) % 2

\* the activation function of the embedding net (tanh): odd, monotone,
\* saturating at +-1
Activation(x) == Clamp(x, -FX, FX)

RECURSIVE EmbeddingLayers(_, _, _, _, _, _)
\* the layers lay..Len(fn) of the net applied to the row x of width din
EmbeddingLayers(x, din, fn, lay, name, wid) ==
    IF lay > Len(fn) THEN x
    ELSE LET y == [o \in 1..fn[lay] |->
                     Activation(Sum([i \in 1..din |-> x[i] * Matrix(name, lay, wid, i, o)],
                                    1, din)
                                + Bias(name, lay, wid, o))]
         IN EmbeddingLayers(y, fn[lay], fn, lay + 1, name, wid)

\* deepmd.utils.network.embedding_net on one row
embedding_net(x, din, fn, name, wid) == EmbeddingLayers(x, din, fn, 1, name, wid)

\* deepmd.utils.network.one_layer without activation on one row: x W + b
one_layer(x, din, dout_, name, lay) ==
    [o \in 1..dout_ |->
        Sum([i \in 1..din |-> x[i] * Matrix(name, lay, 0, i, o)], 1, din)
        + Bias(name, lay, 0, o)]

\* input_dict["type_embedding"]: rows 0..ntypes-1 are the types; a table
\* with padding has the row ntypes, all zero.  Width TebdDim.
TebdDim == 2
type_embedding_row(t, nt) ==
    IF t >= nt THEN [c \in 1..TebdDim |-> 0]
    ELSE [c \in 1..TebdDim |-> IF c = 1 THEN t + 1 ELSE 1 - t]

(***************************************************************************)
(* A score of the attention is a number hi * (2 << 32) + lo: the penalty   *)
(* of build line 389 is a multiple of 2 << 32 = 2^33, far outside the      *)
(* range of lo.                                                            *)
(***************************************************************************)
Wide(h, l) == [hi |-> h, lo |-> l]
WideTimes(x, m) == Wide(x.hi * m, x.lo * m)
WidePlus(x, y) == Wide(x.hi + y.hi, x.lo + y.lo)
WideLeq(x, y) == x.hi < y.hi \/ (x.hi = y.hi /\ x.lo <= y.lo)

\* negative_mask with the penalty left out
negative_mask_of_NoPenalty(nm) == [j \in DOMAIN nm |-> Wide(0, 0)]

\* self.negative_mask = -(2 << 32) * (1.0 - self.nmask)
negative_mask_of(nm) == [j \in DOMAIN nm |-> Wide(-(1 - nm[j]), 0)]

\* the largest difference of two raw scores of unit vectors of width n
ScoreSpan(n) == 2 * n * FX * FX

\* exp(x - max) for x - max = d <= 0: 0 when d is below the range of the
\* floating-point exponential (any d with hi < 0), else positive and
\* monotone, 2^ExpBits at d = 0
Exp(d, n) ==
    IF d.hi < 0 THEN 0
    ELSE Pow2(ExpBits - Quot((-d.lo) * ExpBits, ScoreSpan(n)))

RECURSIVE WideMax(_, _, _)
\* the largest of row[lo..hi]
WideMax(row, lo, hi) ==
    IF lo = hi THEN row[lo]
    ELSE LET m == WideMax(row, lo + 1, hi)
         IN IF WideLeq(m, row[lo]) THEN row[lo] ELSE m

\* tf.nn.softmax along the last axis of one row (slots 0..nnei-1): the
\* weights as fractions num[j] / den
softmax(row, nnei, n) ==
    LET mx == WideMax(row, 0, nnei - 1)
        e == Force([j \in 0..(nnei - 1) |->
                       Exp(Wide(row[j].hi - mx.hi, row[j].lo - mx.lo), n)])
    IN [num |-> e, den |-> Sum(e, 0, nnei - 1)]

\* tf.keras.layers.LayerNormalization over the last axis of one row
LayerNormalization(x, b, g, n) ==
    LET mean == Quot(Sum(x, 1, n), n)
        var == Quot(Sum([w \in 1..n |-> (x[w] - mean) * (x[w] - mean)], 1, n), n)
        sd == Max(ISqrt(var), 1)
    IN [w \in 1..n |-> Quot((x[w] - mean) * g[w] * FX, sd) + b[w]]

(***************************************************************************)
(* _scaled_dot_attn for the atom a.  Q, K, V and input_r are indexed by    *)
(* the flat slot a * nnei + k; nm is self.nmask, negm self.negative_mask.  *)
(* The result holds the output rows and the weights at the three points    *)
(* the method saves or uses them.                                          *)
(***************************************************************************)
\* the masking of lines 655-656 without the additive penalty
MaskScores_NoPenalty(sc, m, neg) == WideTimes(Wide(0, sc), m)

\* attn *= self.nmask ; attn += self.negative_mask, for one entry
MaskScores(sc, m, neg) == WidePlus(WideTimes(Wide(0, sc), m), neg)

\* attn = Q / temperature . K^T ; attn *= nmask ; attn += negative_mask
attn_scores(Q, K, temperature, a, nnei, n, nm, negm) ==
    Force([i \in 0..(nnei - 1) |-> [j \in 0..(nnei - 1) |->
        MaskScores(Dot([c \in 1..n |-> Quot(Q[a * nnei + i][c], temperature)],
                       K[a * nnei + j], n),
                   nm[a * nnei + j], negm[a * nnei + j])]])

\* attn = softmax(attn), the rows of the padded slots left as they are
attn_softmax_RowsKept(sm, a, nnei, nm) ==
    Force([num |-> [i \in 0..(nnei - 1) |-> [j \in 0..(nnei - 1) |-> sm[i].num[j]]],
           den |-> [i \in 0..(nnei - 1) |-> sm[i].den]])

\* attn = softmax(attn) ; attn *= reshape(nmask, [-1, nnei, 1])
attn_softmax(sm, a, nnei, nm) ==
    Force([num |-> [i \in 0..(nnei - 1) |-> [j \in 0..(nnei - 1) |->
                      sm[i].num[j] * nm[a * nnei + i]]],
           den |-> [i \in 0..(nnei - 1) |-> sm[i].den]])

\* angular_weight = input_r . input_r^T
attn_angular(input_r, a, nnei) ==
    Force([i \in 0..(nnei - 1) |-> [j \in 0..(nnei - 1) |->
        Dot(input_r[a * nnei + i], input_r[a * nnei + j], 3)]])

\* if dotr: attn = attn * angular_weight
attn_times_angular(w0, ang, dotr, nnei) ==
    IF dotr
    THEN Force([num |-> [i \in 0..(nnei - 1) |-> [j \in 0..(nnei - 1) |->
                           w0.num[i][j] * ang[i][j]]],
                den |-> [i \in 0..(nnei - 1) |-> w0.den[i] * FX * FX]])
    ELSE w0

\* the diagonal zeroed and every row divided by what is left of it
attn_self_mask_Renormalized(w1, do_mask, nnei) ==
    IF do_mask
    THEN [num |-> [i \in 0..(nnei - 1) |-> [j \in 0..(nnei - 1) |->
                     IF i = j THEN 0 ELSE w1.num[i][j]]],
          den |-> [i \in 0..(nnei - 1) |->
                     Max(1, Sum([j \in 0..(nnei - 1) |->
                                   IF i = j THEN 0 ELSE w1.num[i][j]], 0, nnei - 1))]]
    ELSE w1

\* if do_mask: attn *= ones - eye
attn_self_mask(w1, do_mask, nnei) ==
    IF do_mask
    THEN Force([num |-> [i \in 0..(nnei - 1) |-> [j \in 0..(nnei - 1) |->
                           IF i = j THEN 0 ELSE w1.num[i][j]]],
                den |-> w1.den])
    ELSE w1

\* output = attn . V
attn_output(w2, V, a, nnei, n) ==
    Force([i \in 0..(nnei - 1) |-> [c \in 1..n |->
        Quot(Sum([j \in 0..(nnei - 1) |-> w2.num[i][j] * V[a * nnei + j][c]],
                 0, nnei - 1),
             w2.den[i])]])

\* what _scaled_dot_attn holds once the weights applied to V are known
attn_applied(pre, w0, ang, w1, w2, V, a, nnei, n) ==
    [ pre |-> pre, attn_weight |-> w0, angular_weight |-> ang,
      attn_weight_final |-> w1, applied |-> w2,
      output |-> attn_output(w2, V, a, nnei, n) ]

\* ... once the weights after the angular product are known
attn_final(pre, w0, ang, w1, V, do_mask, a, nnei, n) ==
    attn_applied(pre, w0, ang, w1, attn_self_mask(w1, do_mask, nnei), V, a, nnei, n)

\* ... once the softmax weights are known
attn_weighted(pre, w0, ang, V, dotr, do_mask, a, nnei, n) ==
    attn_final(pre, w0, ang, attn_times_angular(w0, ang, dotr, nnei), V, do_mask, a, nnei, n)

\* ... once the masked scores are known
attn_scored(pre, V, input_r, dotr, do_mask, a, nnei, n, nm) ==
    attn_weighted(pre,
                  attn_softmax(Force([i \in 0..(nnei - 1) |-> softmax(pre[i], nnei, n)]),
                               a, nnei, nm),
                  attn_angular(input_r, a, nnei), V, dotr, do_mask, a, nnei, n)

scaled_dot_attn(Q, K, V, temperature, input_r, dotr, do_mask, a, nnei, n, nm, negm) ==
    attn_scored(attn_scores(Q, K, temperature, a, nnei, n, nm, negm),
                V, input_r, dotr, do_mask, a, nnei, n, nm)

(***************************************************************************)
(* _attention_layers.  x is indexed by the flat slot; c is the descriptor  *)
(* (its configuration and parameters), f the frame.  Returns the output    *)
(* and, per layer (1 + index) and atom, what _scaled_dot_attn computed.    *)
(***************************************************************************)
\* input_xyz += input_att: the sum of two rows of width W
Residual(x, o, W) == [w \in 1..W |-> x[w] + o[w]]

\* input_xyz += one_layer(input_att) ; LayerNormalization, for every slot
layer_output(x, att, i, c, f) ==
    Force([j \in 0..(f.nloc * c.sel_a[1] - 1) |->
        LayerNormalization(
            Residual(x[j],
                     one_layer(att[j \div c.sel_a[1]].output[j % c.sel_a[1]],
                               c.att_n, LastNeuron(c.filter_neuron), "c_out", i),
                     LastNeuron(c.filter_neuron)),
            c.beta[i], c.gamma[i], LastNeuron(c.filter_neuron))])

\* what the loop has done once the layer i has run: per layer what
\* _scaled_dot_attn computed (layers), and its index, input and output (steps)
layer_done(x, y, qkv, att, i, done) ==
    [ layers |-> Append(done.layers, att),
      steps |-> Append(done.steps,
                       [index |-> i, input |-> x, Q |-> qkv.Q, K |-> qkv.K,
                        V |-> qkv.V, output |-> y]) ]

RECURSIVE attention_layers(_, _, _, _, _, _, _)
\* a loop whose every layer starts again from the input of the layer before
attention_layer_next_FromInput(x, y, qkv, att, i, layer_num, input_r, c, f, done) ==
    attention_layers(x, i + 1, layer_num, input_r, c, f,
                     layer_done(x, y, qkv, att, i, done))

\* the end of the body of "for i in range(layer_num)": on to the layer i + 1
attention_layer_next(x, y, qkv, att, i, layer_num, input_r, c, f, done) ==
    attention_layers(y, i + 1, layer_num, input_r, c, f,
                     layer_done(x, y, qkv, att, i, done))

\* the body of the loop from the output projection on
attention_layer_out(x, qkv, att, i, layer_num, input_r, c, f, done) ==
    attention_layer_next(x, layer_output(x, att, i, c, f), qkv, att, i,
                         layer_num, input_r, c, f, done)

attention_layers(x, i, layer_num, input_r, c, f, done) ==
    IF i >= layer_num THEN [x |-> x, layers |-> done.layers, steps |-> done.steps]
    ELSE
      LET W == LastNeuron(c.filter_neuron)
          nnei == c.sel_a[1]
          slots == 0..(f.nloc * nnei - 1)
          sd_k == ISqrt(1)
          Q_c == Force([j \in slots |->
                    l2_normalize(one_layer(x[j], W, c.att_n, "c_query", i), c.att_n)])
          K_c == Force([j \in slots |->
                    l2_normalize(one_layer(x[j], W, c.att_n, "c_key", i), c.att_n)])
          V_c == Force([j \in slots |->
                    l2_normalize(one_layer(x[j], W, c.att_n, "c_value", i), c.att_n)])
      IN attention_layer_out(
             x,
             [Q |-> Q_c, K |-> K_c, V |-> V_c],
             Force([a \in 0..(f.nloc - 1) |->
                 scaled_dot_attn(Q_c, K_c, V_c, sd_k, input_r, c.attn_dotr,
                                 c.attn_mask, a, nnei, c.att_n, f.nmask,
                                 negative_mask_of(f.nmask))]),
             i, layer_num, input_r, c, f, done)

(***************************************************************************)
(* _filter_lower: "input env matrix, returns R.G".  inputs[a][d] is the    *)
(* (masked) environment matrix of atom a.                                  *)
(***************************************************************************)
RuntimeError(m) == [kind |-> "RuntimeError", key |-> <<m>>]
AssertionError(m) == [kind |-> "AssertionError", key |-> <<m>>]
InvalidArgumentError == [kind |-> "InvalidArgumentError", key |-> <<>>]

\* the center type paired with the flat slot j, each atom's type repeated
\* for its own slots
center_of_slot_PerAtom(atype, nloc, nnei, j) == atype[j \div nnei]

\* tf.tile(atype, [self.nnei])[j]: the vector atype repeated nnei times
center_of_slot(atype, nloc, nnei, j) == atype[j % nloc]

\* index_of_two_side = nei_type_vec * type_embedding_shape[0] + tile(atype)
index_of_two_side(ntv, atype, nloc, nnei, rows, j) ==
    ntv[j] * rows + center_of_slot(atype, nloc, nnei, j)

\* the row i * rows + j of two_side_type_embedding:
\* concat(type_embedding_nei = te[j], type_embedding_center = te[i])
two_side_type_embedding(idx, rows, nt) ==
    LET nei == type_embedding_row(idx % rows, nt)
        cen == type_embedding_row(idx \div rows, nt)
    IN [q \in 1..(2 * TebdDim) |-> IF q <= TebdDim THEN nei[q] ELSE cen[q - TebdDim]]

\* the test of line 802 left out
CompressionUnsupported_Ignored(c) == FALSE

\* if self.compress: raise RuntimeError
CompressionUnsupported(c) == c.compress

\* what _filter_lower returns once the attention layers have run:
\* matmul(inputs_i^T, xyz_scatter_att) as RG[a][c][w], c in 0..3
filter_lower_out(att, inputs, err, index, two_embd, xyz_scatter, xyz, input_r, c, f) ==
    [ err |-> err,
      built |-> TRUE,
      two_side_index |-> index,
      two_embd |-> two_embd,
      xyz_scatter |-> xyz_scatter,
      embedding |-> xyz,
      input_r |-> input_r,
      layers |-> att.layers,
      steps |-> att.steps,
      E |-> att.x,
      RG |-> Force([a \in 0..(f.nloc - 1) |-> [ch \in 0..3 |->
                [w \in 1..LastNeuron(c.filter_neuron) |->
                    Sum([k \in 0..(c.sel_a[1] - 1) |->
                           inputs[a][4 * k + ch] * att.x[a * c.sel_a[1] + k][w]],
                        0, c.sel_a[1] - 1)]]]) ]

filter_lower(inputs, c, f) ==
    LET W == LastNeuron(c.filter_neuron)
        nnei == c.sel_a[1]
        slots == 0..(f.nloc * nnei - 1)
        zero == [w \in 1..W |-> 0]
        \* xyz_scatter: the radial channel of every slot
        xyz_scatter == [j \in slots |-> <<inputs[j \div nnei][4 * (j % nnei)]>>]
        base == Force([j \in slots |->
                   embedding_net(xyz_scatter[j], 1, c.filter_neuron,
                                 "filter_type_all", c.wid)])
        \* one side: embedding of the type embedding, looked up by neighbor type
        embedding_of_embedding ==
            Force([t \in 0..(f.te_rows - 1) |->
                      embedding_net(type_embedding_row(t, c.ntypes), TebdDim,
                                    c.filter_neuron, "_ebd_of_ebd", c.wid)])
        \* two sides: embedding of every pair, looked up by index_of_two_side
        embedding_of_two_side ==
            Force([q \in 0..(f.te_rows * f.te_rows - 1) |->
                      embedding_net(two_side_type_embedding(q, f.te_rows, c.ntypes),
                                    2 * TebdDim, c.filter_neuron,
                                    "_two_side_ebd", c.wid)])
        idx2(j) == index_of_two_side(f.nei_type_vec, f.atype, f.nloc, nnei,
                                     f.te_rows, j)
        two_embd == Force([j \in slots |->
                       embedding_lookup(embedding_of_two_side,
                                        f.te_rows * f.te_rows, idx2(j), zero)])
        compose_s == [w \in 1..W |-> Bias("embedding_compose_s", 0, c.wid, w) + 1]
        compose_n == [w \in 1..W |-> Bias("embedding_compose_n", 0, c.wid, w) - 2]
        xyz == IF c.type_one_side
               THEN Force([j \in slots |-> [w \in 1..W |->
                       base[j][w]
                       + embedding_lookup(embedding_of_embedding, f.te_rows,
                                          f.nei_type_vec[j], zero)[w]]])
               ELSE Force([j \in slots |-> [w \in 1..W |->
                       base[j][w] * two_embd[j][w] + compose_s[w] * base[j][w]
                       + compose_n[w] * two_embd[j][w]]])
        in_range == \A j \in slots :
                      IF c.type_one_side
                      THEN InRange(f.te_rows, f.nei_type_vec[j])
                      ELSE InRange(f.te_rows * f.te_rows, idx2(j))
        \* input_r: the normalized direction of every slot
        input_r == Force([j \in slots |->
                      l2_normalize([q \in 1..3 |->
                                      inputs[j \div nnei][4 * (j % nnei) + q]], 3)])
    IN IF CompressionUnsupported(c)
       THEN [err |-> RuntimeError("compression of attention descriptor is not supported at the moment"),
             built |-> FALSE]
       ELSE filter_lower_out(
                attention_layers(xyz, 0, c.attn_layer, input_r, c, f,
                                 [layers |-> <<>>, steps |-> <<>>]),
                inputs,
                IF in_range \/ f.device = "gpu" THEN NoError
                ELSE InvalidArgumentError,
                [j \in slots |-> idx2(j)], two_embd, xyz_scatter, xyz, input_r,
                c, f)

(***************************************************************************)
(* _filter: the descriptor and the rotation matrix of every atom, as       *)
(* fractions num / den (den is a power of the neighbor count).             *)
(***************************************************************************)
\* the divisor taken from the number of slots whatever original_sel is
filter_nnei_SlotsOnly(shape1, osel) == shape1 \div 4

\* nnei of lines 977-989
filter_nnei(shape1, osel) ==
    IF osel = None THEN shape1 \div 4 ELSE SumSeq(Get(osel))

\* qmat in the layout 3 x W: entry (c, w) at c * W + w
qmat_flat_RowsFirst(G, W, q) == G[1 + (q \div W)][(q % W) + 1]

\* the entry q of the flattened qmat of one atom: slice rows 1..3 of G,
\* transpose to W x 3, reshape to W * 3
qmat_flat(G, W, q) == G[1 + (q % 3)][(q \div 3) + 1]

\* the entry q of the flattened result of one atom: G^T . G2 reshaped to
\* W * axis
result_flat(G, W, axis, q) ==
    Sum([ch \in 0..3 |-> G[ch][(q \div axis) + 1] * G[ch][(q % axis) + 1]], 0, 3)

\* what _filter makes of the result fl of _filter_lower
filter_out(fl, c, f) ==
    LET W == LastNeuron(c.filter_neuron)
        axis == c.n_axis_neuron
        nnei == filter_nnei(ndescrpt_of(c.sel_a), c.original_sel)
    IN IF ~fl.built THEN [err |-> fl.err, built |-> FALSE]
       ELSE [ err |-> fl.err, built |-> TRUE, lower |-> fl,
              \* xyz_scatter_1 = xyz_scatter_1 / nnei
              nnei |-> nnei,
              result |-> Force([a \in 0..(f.nloc - 1) |->
                           [num |-> [q \in 0..(W * axis - 1) |->
                                       result_flat(fl.RG[a], W, axis, q)],
                            den |-> nnei * nnei]]),
              qmat |-> Force([a \in 0..(f.nloc - 1) |->
                           [num |-> [q \in 0..(3 * W - 1) |->
                                       qmat_flat(fl.RG[a], W, q)],
                            den |-> nnei]]) ]

filter(inputs, c, f) == filter_out(filter_lower(inputs, c, f), c, f)

(***************************************************************************)
(* _pass_filter                                                            *)
(***************************************************************************)
\* inputs_i *= mask, skipped
apply_mask_Skipped(d, m, a, q) == d

\* inputs_i *= mask, for the entry q of atom a
apply_mask(d, m, a, q) == d * m[a][q]

\* what _pass_filter leaves once _filter has run on the masked inputs
pass_filter_out(ft, mk, inputs_i, c, has_te) ==
    IF ~has_te
    THEN [err |-> AssertionError("se_atten desctiptor must use type_embedding"),
          asserted |-> FALSE, masked |-> FALSE, built |-> FALSE]
    ELSE [ err |-> ft.err, asserted |-> TRUE,
           masked |-> c.exclude_types # {},
           mask |-> mk, inputs_i |-> inputs_i,
           built |-> ft.built, filter |-> ft ]

\* _pass_filter from the masked inputs on
pass_filter_masked(inputs_i, mk, atype, c, f, has_te) ==
    pass_filter_out(filter(inputs_i, c, [f EXCEPT !.atype = atype]),
                    mk, inputs_i, c, has_te)

pass_filter(inputs, atype, c, f, has_te) ==
    LET nd == ndescrpt_of(c.sel_a)
        mk == build_type_exclude_mask(c.exclude_types, c.ntypes, c.sel_a, nd,
                                      atype, f.nloc, f.nei_type_vec)
    IN pass_filter_masked(
           IF c.exclude_types # {}
           THEN Force([a \in 0..(f.nloc - 1) |-> [q \in 0..(nd - 1) |->
                          apply_mask(inputs[a * nd + q], mk, a, q)]])
           ELSE Force([a \in 0..(f.nloc - 1) |-> [q \in 0..(nd - 1) |->
                          inputs[a * nd + q]]]),
           mk, atype, c, f, has_te)

\* what one evaluation of the graph of _pass_filter holds, tensor by tensor
Tensors(r) ==
    IF ~r.asserted THEN r
    ELSE [ err |-> r.err, asserted |-> r.asserted, masked |-> r.masked,
           built |-> r.built,
           mask |-> Solid(r.mask, 2),
           inputs_i |-> Solid(r.inputs_i, 2),
           filter |->
             IF ~r.built THEN r.filter
             ELSE LET ft == r.filter
                      fl == ft.lower
                  IN [ err |-> ft.err, built |-> ft.built, nnei |-> ft.nnei,
                       result |-> SolidOut(ft.result),
                       qmat |-> SolidOut(ft.qmat),
                       lower |->
                         [ err |-> fl.err, built |-> fl.built,
                           two_side_index |-> Solid(fl.two_side_index, 1),
                           two_embd |-> Solid(fl.two_embd, 2),
                           xyz_scatter |-> Solid(fl.xyz_scatter, 2),
                           embedding |-> Solid(fl.embedding, 2),
                           input_r |-> Solid(fl.input_r, 2),
                           layers |->
                             Solid([l \in DOMAIN fl.layers |->
                                     [a \in DOMAIN fl.layers[l] |->
                                       LET s == fl.layers[l][a]
                                       IN [ pre |-> Solid(s.pre, 2),
                                            attn_weight |-> SolidWeights(s.attn_weight),
                                            angular_weight |-> Solid(s.angular_weight, 2),
                                            attn_weight_final |->
                                                SolidWeights(s.attn_weight_final),
                                            applied |-> SolidWeights(s.applied),
                                            output |-> Solid(s.output, 2) ]]], 2),
                           steps |->
                             Solid([l \in DOMAIN fl.steps |->
                                     [ index |-> fl.steps[l].index,
                                       input |-> Solid(fl.steps[l].input, 2),
                                       Q |-> Solid(fl.steps[l].Q, 2),
                                       K |-> Solid(fl.steps[l].K, 2),
                                       V |-> Solid(fl.steps[l].V, 2),
                                       output |-> Solid(fl.steps[l].output, 2) ]], 1),
                           E |-> Solid(fl.E, 2),
                           RG |-> Solid(fl.RG, 3) ] ] ]

(***************************************************************************)
(* _compute_dstats_sys_smth.  dd_all holds floating-point numbers: a       *)
(* number is an integer here, and every sum, product and quotient is       *)
(* rounded to FBits significant bits, ties to even.                        *)
(***************************************************************************)
\* significant bits of a floating-point number
FBits == 3

RECURSIVE BitLen(_)
BitLen(n) == IF n = 0 THEN 0 ELSE 1 + BitLen(n \div 2)

\* the fraction num / den (num >= 0 < den) rounded to the nearest number
RoundPos(num, den) ==
    LET sp == Pow2(BitLen(num \div den) - FBits)
        lo == (num \div (den * sp)) * sp
        rest == 2 * (num - lo * den)
    IN IF rest < sp * den THEN lo
       ELSE IF rest > sp * den THEN lo + sp
       ELSE IF (lo \div sp) % 2 = 0 THEN lo ELSE lo + sp

\* num / den as the floating-point number nearest to it
RoundQ(num, den) == IF num < 0 THEN -RoundPos(-num, den) ELSE RoundPos(num, den)

\* a + b of two floats
FAdd(a, b) == RoundQ(a + b, 1)

\* a * b of two floats
FMul(a, b) == RoundQ(a * b, 1)

RECURSIVE NpSumFrom(_, _)
NpSumFrom(acc, xs) ==
    IF xs = <<>> THEN acc ELSE NpSumFrom(FAdd(acc, Head(xs)), Tail(xs))

\* np.sum of the entries xs of an array, in the order they are stored
NpSum(xs) == NpSumFrom(0, xs)

\* the vector natoms: [nloc, nall, number of atoms of type 0, 1, ...]
NatomsOf(at, nloc, nt) ==
    [ i \in 0..(nt + 1) |->
        IF i < 2 THEN nloc
        ELSE Cardinality({ a \in 0..(nloc - 1) : at[a] = i - 2 }) ]

RECURSIVE Flatten(_)
\* np.reshape to one row: the rows of ss one after the other
Flatten(ss) == IF ss = <<>> THEN <<>> ELSE Head(ss) \o Flatten(Tail(ss))

\* start_index of the type type_i in every version of the loop
start_index_of(natoms, ndescrpt, type_i) ==
    ndescrpt * Sum([u \in 0..(type_i - 1) |-> natoms[2 + u]], 0, type_i - 1)

\* dd_all[:, start_index:end_index] of one row of dd_all (row is 1-based)
type_slice(row, natoms, ndescrpt, type_i) ==
    LET start == start_index_of(natoms, ndescrpt, type_i)
        stop == Min(start + ndescrpt * natoms[2 + type_i], Len(row))
    IN SubSeq(row, start + 1, stop)

\* the "compute" block on dd reshaped to [-1, 4], dd given flat:
\* <<sumr, sumr2, suma, suma2, sumn>>
compute_block(dd) ==
    LET n == Len(dd) \div 4
        ddr == [k \in 1..n |-> dd[4 * (k - 1) + 1]]
        dda == [k \in 1..(3 * n) |-> dd[4 * ((k - 1) \div 3) + 2 + ((k - 1) % 3)]]
    IN [ sumr  |-> NpSum(ddr),
         sumr2 |-> NpSum([k \in 1..n |-> FMul(ddr[k], ddr[k])]),
         suma  |-> RoundQ(NpSum(dda), 3),
         suma2 |-> RoundQ(NpSum([k \in 1..(3 * n) |-> FMul(dda[k], dda[k])]), 3),
         sumn  |-> n ]

\* sysr[type_i] = sumr, ...: the totals replaced, not added to
accumulate_Overwritten(acc, b) == b

\* sysr[type_i] += sumr, ... of the mixed mode
accumulate(acc, b) ==
    [ sumr  |-> FAdd(acc.sumr, b.sumr),
      sumr2 |-> FAdd(acc.sumr2, b.sumr2),
      suma  |-> FAdd(acc.suma, b.suma),
      suma2 |-> FAdd(acc.suma2, b.suma2),
      sumn  |-> acc.sumn + b.sumn ]

\* [0.0 ...], [0 ...] : the totals the mixed mode starts from
zero_block == [sumr |-> 0, sumr2 |-> 0, suma |-> 0, suma2 |-> 0, sumn |-> 0]

RECURSIVE mixed_frames(_, _, _, _, _, _)
\* the loop "for ff in range(nframes)" from the frame ff on, for one type
mixed_frames(acc, ff, dd_all, real_natoms_vec, ndescrpt, type_i) ==
    IF ff > Len(dd_all) THEN acc
    ELSE mixed_frames(
             accumulate(acc, compute_block(type_slice(dd_all[ff],
                                 real_natoms_vec[ff], ndescrpt, type_i))),
             ff + 1, dd_all, real_natoms_vec, ndescrpt, type_i)

\* the uniform mode for one type: the slice of every frame, then one block
uniform_frames(dd_all, natoms_vec, ndescrpt, type_i) ==
    compute_block(Flatten([ff \in 1..Len(dd_all) |->
                              type_slice(dd_all[ff], natoms_vec, ndescrpt, type_i)]))

\* _compute_dstats_sys_smth after run_sess: the five results per type
compute_dstats_sys_smth(dd_all, natoms_vec, mixed_type, real_natoms_vec, nt, ndescrpt) ==
    [ type_i \in 0..(nt - 1) |->
        IF mixed_type
        THEN mixed_frames(zero_block, 1, dd_all, real_natoms_vec, ndescrpt, type_i)
        ELSE uniform_frames(dd_all, natoms_vec, ndescrpt, type_i) ]

(***************************************************************************)
(* DescrptSeAtten.__init__                                                 *)
(***************************************************************************)
\* the constructor of the base class stores the excluded pairs in both orders
SymmetricPairs(pairs) == pairs \cup { <<p[2], p[1]>> : p \in pairs }

NoCall == [op |-> "__init__"]

\* no system has been given
NoSystem == [nframes |-> 0]

\* the statistics no system has been added to
empty_stat_dict ==
    [sumr |-> <<>>, suma |-> <<>>, sumn |-> <<>>, sumr2 |-> <<>>, suma2 |-> <<>>]

\* the constructor of the base class keeps multi_task and, in multi-task
\* mode, creates the empty stat_dict
ConstructTask(mt) ==
    /\ multi_task = mt
    /\ stat_dict = IF mt THEN Some(empty_stat_dict) ELSE None

Construct(nt, sel, fn, axis, attn, layers, dotr, msk, oneside, excl, osel, sd) ==
    /\ ntypes = nt
    /\ sel_a = <<sel>>
    /\ filter_neuron = fn
    /\ n_axis_neuron = axis
    /\ att_n = attn
    /\ attn_layer = layers
    /\ attn_dotr = dotr
    /\ attn_mask = msk
    /\ type_one_side = oneside
    /\ exclude_types = SymmetricPairs(excl)
    /\ original_sel = osel
    /\ compress = FALSE
    /\ davg = None
    /\ dstd = None
    /\ seed = sd
    /\ beta = [l \in 0..(layers - 1) |-> Zeros(LastNeuron(fn))]
    /\ gamma = [l \in 0..(layers - 1) |-> Ones(LastNeuron(fn))]
    /\ attention_layer_variables = None
    /\ embedding_net_variables = None
    /\ graph = {}
    /\ t_avg = None
    /\ t_std = None
    /\ descrpt = None
    /\ nei_type_vec = None
    /\ nmask = None
    /\ negative_mask = None
    /\ atype_nloc = None
    /\ attn_weight = None
    /\ angular_weight = None
    /\ attn_weight_final = None
    /\ dout = None
    /\ qmat = None
    /\ run = None
    /\ mask = None
    /\ call = NoCall

(***************************************************************************)
(* build_type_exclude_mask as a function of its arguments: any exclusion   *)
(* list of at most MaxExcl pairs, any frame.                               *)
(***************************************************************************)
\* number of pairs of an exclusion list
MaxExcl == 2

TypePairs(nt) == (0..(nt - 1)) \X (0..(nt - 1))
ExclusionLists(nt) == { e \in SUBSET TypePairs(nt) : Cardinality(e) <= MaxExcl }

MaskCall ==
    \E excl \in ExclusionLists(ntypes) :
        /\ mask' = Some(build_type_exclude_mask(excl, ntypes, sel_a,
                            ndescrpt_of(sel_a), feed.atype, feed.nloc,
                            feed.nei_type_vec))
        /\ call' = [op |-> "build_type_exclude_mask", exclude_types |-> excl,
                    ntypes |-> ntypes, sel |-> sel_a, atype |-> feed.atype,
                    shape0 |-> feed.nloc, nei_type_vec |-> feed.nei_type_vec]
        /\ UNCHANGED <<cfgVars, parVars, bldVars, run, envVars, statVars>>

(***************************************************************************)
(* build                                                                   *)
(***************************************************************************)
\* the descriptor as the graph-building methods read it
Self ==
    [ ntypes |-> ntypes, sel_a |-> sel_a, filter_neuron |-> filter_neuron,
      n_axis_neuron |-> n_axis_neuron, att_n |-> att_n,
      attn_layer |-> attn_layer, attn_dotr |-> attn_dotr,
      attn_mask |-> attn_mask, type_one_side |-> type_one_side,
      exclude_types |-> exclude_types, original_sel |-> original_sel,
      compress |-> compress, beta |-> beta, gamma |-> gamma,
      wid |-> IF embedding_net_variables = None THEN 0
              ELSE Get(embedding_net_variables).net ]

\* np.zeros / np.ones([ntypes, ndescrpt]): per type the radial and the
\* angular statistic
StatOf(nt, v) == [t \in 0..(nt - 1) |-> [r |-> v, a |-> v]]

\* tf.clip_by_value(atype, 0, ntypes - 1), sliced to the local atoms
clip_atype(atype, nloc, nt) == [a \in 0..(nloc - 1) |-> Clamp(atype[a], 0, nt - 1)]

uniform_seed == FALSE
\* DescrptSeA.seed_shift
seed_shift(fn) == 3 * (Len(fn) + 1)
\* largest seed a build starts from
MaxSeed == 1

\* the graph nodes created up to the point a build got to
NodesOf(c, r) ==
    {<<"descrpt_attr", "t_avg">>, <<"descrpt_attr", "t_std">>,
     <<"op", "prod_env_mat_a_mix">>}
    \cup (IF r.masked THEN {<<"op", "type_exclude_mask">>} ELSE {})
    \cup (IF r.built
          THEN {<<"embedding_net", "filter_type_all">>}
               \cup (IF c.type_one_side
                     THEN {<<"embedding_net", "_ebd_of_ebd">>}
                     ELSE {<<"embedding_net", "_two_side_ebd">>})
               \cup { <<"attention_layer", Digit[i + 1]>> :
                        i \in 0..(c.attn_layer - 1) }
               \cup {<<"op", "descriptor">>}
          ELSE {})

\* the diagnostics of one kind after a build: per layer, what
\* _scaled_dot_attn saved of atom 0
Saved(c, r, kind) ==
    [ i \in 0..(c.attn_layer - 1) |->
        IF r.built /\ r.err = NoError
        THEN LET sda == r.filter.lower.layers[i + 1][0]
             IN IF kind = "attn_weight" THEN Some(sda.attn_weight)
                ELSE IF ~c.attn_dotr THEN None
                ELSE IF kind = "angular_weight" THEN Some(sda.angular_weight)
                ELSE Some(sda.attn_weight_final)
        ELSE None ]

\* a build that keeps the defaults it made as the descriptor's statistics
build_descrpt_attr_StoresDefaults ==
    /\ t_avg' = Some(IF davg = None THEN StatOf(ntypes, 0) ELSE Get(davg))
    /\ t_std' = Some(IF dstd = None THEN StatOf(ntypes, 1) ELSE Get(dstd))
    /\ davg' = t_avg'
    /\ dstd' = t_std'

\* the scope "descrpt_attr" of build: davg and dstd, or zeros and ones in
\* their place, initialize t_avg and t_std
build_descrpt_attr ==
    /\ t_avg' = Some(IF davg = None THEN StatOf(ntypes, 0) ELSE Get(davg))
    /\ t_std' = Some(IF dstd = None THEN StatOf(ntypes, 1) ELSE Get(dstd))
    /\ UNCHANGED <<davg, dstd>>

Build ==
    /\ IF seed = None THEN TRUE ELSE Get(seed) <= MaxSeed
    /\ \E has_te \in BOOLEAN :
       \E c \in {Self} :
       \E atype \in {clip_atype(feed.atype, feed.nloc, ntypes)} :
       \E r \in {Tensors(pass_filter(feed.descrpt, atype, c, feed, has_te))} :
        LET ok == r.built /\ r.err = NoError
        IN /\ build_descrpt_attr
           /\ descrpt' = Some(feed.descrpt)
           /\ nei_type_vec' = Some(feed.nei_type_vec)
           /\ nmask' = Some(feed.nmask)
           /\ negative_mask' = Some(Solid(negative_mask_of(feed.nmask), 1))
           /\ atype_nloc' = Some(Solid(atype, 1))
           /\ graph' = graph \cup NodesOf(c, r)
           /\ attn_weight' = Some(Solid(Saved(c, r, "attn_weight"), 1))
           /\ angular_weight' = Some(Solid(Saved(c, r, "angular_weight"), 1))
           /\ attn_weight_final' = Some(Solid(Saved(c, r, "attn_weight_final"), 1))
           /\ mask' = IF r.masked THEN Some(r.mask) ELSE mask
           /\ dout' = IF ok THEN Some(r.filter.result)
                      ELSE IF r.built THEN None ELSE dout
           /\ qmat' = IF ok THEN Some(r.filter.qmat)
                      ELSE IF r.built THEN None ELSE qmat
           /\ seed' = IF r.built /\ ~uniform_seed /\ seed # None
                      THEN Some(Get(seed) + seed_shift(filter_neuron)) ELSE seed
           /\ run' = Some(r)
           /\ call' = [op |-> "build", has_type_embedding |-> has_te,
                       err |-> r.err]
           /\ UNCHANGED <<cfgVars, beta, gamma,
                          attention_layer_variables, embedding_net_variables,
                          envVars, statVars>>

\* DescrptSeA.enable_compression as far as this class reads it: the flag
EnableCompression ==
    /\ compress' = TRUE
    /\ call' = [op |-> "enable_compression"]
    /\ UNCHANGED <<ntypes, sel_a, filter_neuron, n_axis_neuron, att_n,
                   attn_layer, attn_dotr, attn_mask, type_one_side,
                   exclude_types, original_sel, parVars, bldVars, run, mask,
                   envVars, statVars>>

\* a frozen graph that holds no variable of the descriptor
NoGraphDef == GraphDefOf(1, <<>>, {}, LastNeuron(Neuron))

InitVariables ==
    \E suffix \in Suffixes :
      \E graph_def \in {frozen} :
      \E r \in {init_variables(beta, gamma, attn_layer, graph_def, suffix)} :
         /\ embedding_net_variables' = r.embedding_net_variables
         /\ attention_layer_variables' = r.attention_layer_variables
         /\ beta' = r.beta
         /\ gamma' = r.gamma
         /\ call' = [op |-> "init_variables", graph_def |-> graph_def,
                     suffix |-> suffix, err |-> r.err]
         /\ UNCHANGED <<cfgVars, davg, dstd, seed, bldVars, run, mask, envVars,
                        statVars>>

InitRestore ==
    \E layers \in 0..MaxAttnLayer :
        /\ \E sd \in {None, Some(1)} :
             Construct(MaxNtypes, MaxNnei, Neuron, 2, 2, layers, TRUE, FALSE,
                       TRUE, {}, None, sd)
        /\ feed = FrameOf(MaxNtypes, MaxNnei, 1, [a \in {0} |-> 0],
                          [a \in {0} |-> 1])
        /\ frozen \in AllGraphDefs
    /\ system = NoSystem
    /\ ConstructTask(FALSE)

SpecRestore == InitRestore /\ [][InitVariables]_vars

\* prod_env_mat_a_mix's frame with the type-embedding table fed beside it
\* (rows) and the device the kernels run on
WithKernel(fr, rows, dev) ==
    [ nloc |-> fr.nloc, atype |-> fr.atype, nei_type_vec |-> fr.nei_type_vec,
      nmask |-> fr.nmask, descrpt |-> fr.descrpt, te_rows |-> rows,
      device |-> dev ]

Kernels(nt) == { <<nt + 1, "cpu">>, <<nt, "cpu">>, <<nt, "gpu">> }

ExcludeChoices == { {}, {<<0, 1>>} }

\* original_sel: unset, or the sel of before the slots were cut down
OriginalSels == { None, Some(<<MaxNnei + 1>>) }

\* the options of the descriptors built: every setting of the attention
\* with nothing excluded and original_sel unset, and every exclusion and
\* original_sel with the default attention (attn_dotr, no attn_mask)
Options ==
    { [layers |-> l, dotr |-> d, msk |-> m, oneside |-> o, excl |-> {},
       osel |-> None] :
        l \in 0..MaxAttnLayer, d \in BOOLEAN, m \in BOOLEAN, o \in BOOLEAN }
    \cup
    { [layers |-> l, dotr |-> TRUE, msk |-> FALSE, oneside |-> o, excl |-> e,
       osel |-> os] :
        l \in 0..MaxAttnLayer, o \in BOOLEAN, e \in ExcludeChoices,
        os \in OriginalSels }

InitBuild ==
    /\ \E o \in Options :
          Construct(MaxNtypes, MaxNnei, Neuron, 2, 2, o.layers, o.dotr, o.msk,
                    o.oneside, o.excl, o.osel, None)
    /\ \E fr \in Frames(MaxNtypes, MaxNnei), k \in Kernels(MaxNtypes) :
          feed = WithKernel(fr, k[1], k[2])
    /\ frozen = NoGraphDef
    /\ system = NoSystem
    /\ ConstructTask(FALSE)

SpecBuild == InitBuild /\ [][Build \/ EnableCompression]_vars

InitMask ==
    \E nt \in 1..MaxNtypes :
        /\ Construct(nt, MaxNnei, Neuron, 2, 2, 1, TRUE, FALSE, TRUE, {}, None,
                     None)
        /\ feed \in Frames(nt, MaxNnei)
        /\ frozen = NoGraphDef
        /\ system = NoSystem
        /\ ConstructTask(FALSE)

SpecMask == InitMask /\ [][MaskCall]_vars

(***************************************************************************)
(* Builds of a descriptor whose statistics are unset or have been          *)
(* finalized, and whose layer normalization is fresh or restored.          *)
(***************************************************************************)
\* the statistics the finalization may leave: per type, a radial and an
\* angular value
StatChoices ==
    { [avg |-> [t \in 0..(MaxNtypes - 1) |-> [r |-> 1 + t, a |-> 0]],
       std |-> [t \in 0..(MaxNtypes - 1) |-> [r |-> 2, a |-> 1 + t]]],
      [avg |-> [t \in 0..(MaxNtypes - 1) |-> [r |-> 0, a |-> 0]],
       std |-> [t \in 0..(MaxNtypes - 1) |-> [r |-> 1, a |-> 1]]] }

\* the statistics-finalization step: davg and dstd are set
MergeInputStats ==
    /\ davg = None
    /\ \E st \in StatChoices :
         /\ davg' = Some(st.avg)
         /\ dstd' = Some(st.std)
    /\ call' = [op |-> "merge_input_stats"]
    /\ UNCHANGED <<cfgVars, seed, beta, gamma, attention_layer_variables,
                   embedding_net_variables, bldVars, run, mask, envVars,
                                  statVars>>

InitFrozen ==
    /\ \E layers \in 0..MaxAttnLayer :
          Construct(MaxNtypes, MaxNnei, Neuron, 2, 2, layers, TRUE, FALSE, TRUE,
                    {}, None, None)
    /\ \E fr \in { x \in Frames(MaxNtypes, MaxNnei) : x.nloc = 1 } :
          feed = WithKernel(fr, MaxNtypes + 1, "cpu")
    /\ frozen \in { NoGraphDef,
                     GraphDefOf(1, <<>>, SavedEntries(MaxAttnLayer),
                                LastNeuron(Neuron)) }
    /\ system = NoSystem
    /\ ConstructTask(FALSE)

SpecFrozen == InitFrozen /\ [][Build \/ MergeInputStats \/ InitVariables]_vars

(***************************************************************************)
(* _compute_dstats_sys_smth as a function of its arguments: any system of  *)
(* at most MaxFrames frames, its atoms in any order of their types.        *)
(***************************************************************************)
\* number of frames of a system
MaxFrames == 2

\* the environment rows (radial, three angular) of a slot; the values are
\* large enough for every quotient by 3 to keep FBits significant bits
StatMenu == << <<0, 0, 0, 0>>, <<64, 64, 0, 0>>, <<512, 0, 192, -256>> >>

\* the row of the slot k of an atom whose first slot holds StatMenu[p]
SlotRow(p, k) == StatMenu[((p + k - 1) % Len(StatMenu)) + 1]

\* the system whose frame ff has the types at[ff] and whose atom a of frame
\* ff holds the rows SlotRow(pick[ff][a], 0), SlotRow(pick[ff][a], 1), ...
SystemOf(nt, nnei, nloc, nframes, at, pick) ==
    [ nframes |-> nframes,
      nloc |-> nloc,
      atype |-> at,
      dd_all |-> [ff \in 1..nframes |->
                    [q \in 1..(nloc * nnei * 4) |->
                        SlotRow(pick[ff][(q - 1) \div (4 * nnei)],
                                ((q - 1) \div 4) % nnei)[((q - 1) % 4) + 1]]],
      natoms_vec |-> NatomsOf(at[1], nloc, nt),
      real_natoms_vec |-> [ff \in 1..nframes |-> NatomsOf(at[ff], nloc, nt)] ]

\* the uniform mode is given systems whose frames all hold natoms_vec
IsUniform(sys) ==
    \A ff \in 1..sys.nframes : sys.real_natoms_vec[ff] = sys.natoms_vec

ComputeDstatsSysSmth ==
    \E mixed_type \in BOOLEAN :
        /\ IF mixed_type THEN TRUE ELSE IsUniform(system)
        /\ \E r \in {compute_dstats_sys_smth(system.dd_all, system.natoms_vec,
                          mixed_type, system.real_natoms_vec, ntypes,
                          ndescrpt_of(sel_a))} :
             call' = [op |-> "_compute_dstats_sys_smth",
                      mixed_type |-> mixed_type, ret |-> r]
        /\ UNCHANGED <<cfgVars, parVars, bldVars, run, mask, envVars,
                       statVars>>

InitStat ==
    /\ Construct(MaxNtypes, MaxNnei, Neuron, 2, 2, 1, TRUE, FALSE, TRUE, {}, None,
                 None)
    /\ feed = FrameOf(MaxNtypes, MaxNnei, 1, [a \in {0} |-> 0], [a \in {0} |-> 1])
    /\ frozen = NoGraphDef
    /\ ConstructTask(FALSE)
    /\ \E nloc \in 1..MaxNloc, nframes \in 1..MaxFrames :
       \E at \in [1..nframes -> [0..(nloc - 1) -> 0..(MaxNtypes - 1)]] :
       \E pick \in [1..nframes -> [0..(nloc - 1) -> 1..Len(StatMenu)]] :
          system = SystemOf(MaxNtypes, MaxNnei, nloc, nframes, at, pick)

SpecStat == InitStat /\ [][ComputeDstatsSysSmth]_vars

(***************************************************************************)
(* compute_input_stats: calls on lists of systems, in single-task and in   *)
(* multi-task mode.                                                        *)
(***************************************************************************)
\* number of systems of one call
MaxSystems == 2
\* number of systems stat_dict holds at most
MaxStatLen == 3

\* the systems a call is given: one frame of one atom, of the type t and
\* with the rows SlotRow(t + 1, 0), SlotRow(t + 1, 1), ...
StatSystems ==
    { SystemOf(MaxNtypes, MaxNnei, 1, 1, <<[a \in {0} |-> t % MaxNtypes]>>,
               <<[a \in {0} |-> t + 1]>>) :
        t \in 0..(Len(StatMenu) - 1) }

\* the five local lists with the results of one more system appended
append_sys(loc, ret, nt) ==
    [ sumr  |-> Append(loc.sumr,  Solid([t \in 0..(nt - 1) |-> ret[t].sumr], 1)),
      suma  |-> Append(loc.suma,  Solid([t \in 0..(nt - 1) |-> ret[t].suma], 1)),
      sumn  |-> Append(loc.sumn,  Solid([t \in 0..(nt - 1) |-> ret[t].sumn], 1)),
      sumr2 |-> Append(loc.sumr2, Solid([t \in 0..(nt - 1) |-> ret[t].sumr2], 1)),
      suma2 |-> Append(loc.suma2, Solid([t \in 0..(nt - 1) |-> ret[t].suma2], 1)) ]

RECURSIVE input_stats_loop(_, _, _, _, _, _)
\* the loop over the zipped lists from the system i on
input_stats_loop(loc, i, data, mixed_type, nt, ndescrpt) ==
    IF i > Len(data) THEN loc
    ELSE input_stats_loop(
             append_sys(loc,
                        compute_dstats_sys_smth(data[i].dd_all, data[i].natoms_vec,
                            mixed_type, data[i].real_natoms_vec, nt, ndescrpt),
                        nt),
             i + 1, data, mixed_type, nt, ndescrpt)

\* self.stat_dict[...] = ...: the lists of the call put in place of the
\* accumulated ones
stat_dict_add_Replaced(sd, loc) == loc

\* self.stat_dict["sumr"] += sumr, ... for the five lists
stat_dict_add(sd, loc) ==
    [ sumr  |-> sd.sumr \o loc.sumr,
      suma  |-> sd.suma \o loc.suma,
      sumn  |-> sd.sumn \o loc.sumn,
      sumr2 |-> sd.sumr2 \o loc.sumr2,
      suma2 |-> sd.suma2 \o loc.suma2 ]

ComputeInputStats ==
    \E mixed_type \in BOOLEAN, n \in 0..MaxSystems :
    \E data \in [1..n -> StatSystems] :
        /\ IF mixed_type THEN TRUE ELSE \A i \in 1..n : IsUniform(data[i])
        /\ IF multi_task THEN Len(Get(stat_dict).sumr) + n <= MaxStatLen ELSE TRUE
        /\ \E loc \in {input_stats_loop(empty_stat_dict, 1, data, mixed_type,
                                        ntypes, ndescrpt_of(sel_a))} :
             IF ~multi_task
             THEN /\ \E st \in StatChoices :
                       /\ davg' = Some(st.avg)
                       /\ dstd' = Some(st.std)
                  /\ call' = [op |-> "compute_input_stats",
                              mixed_type |-> mixed_type, data |-> data,
                              merged |-> Some(loc)]
                  /\ UNCHANGED stat_dict
             ELSE /\ stat_dict' = Some(stat_dict_add(Get(stat_dict), loc))
                  /\ call' = [op |-> "compute_input_stats",
                              mixed_type |-> mixed_type, data |-> data,
                              merged |-> None]
                  /\ UNCHANGED <<davg, dstd>>
        /\ UNCHANGED <<cfgVars, seed, beta, gamma, attention_layer_variables,
                       embedding_net_variables, bldVars, run, mask, envVars,
                       multi_task>>

InitInputStats ==
    /\ Construct(MaxNtypes, MaxNnei, Neuron, 2, 2, 1, TRUE, FALSE, TRUE, {}, None,
                 None)
    /\ \E mt \in BOOLEAN : ConstructTask(mt)
    /\ feed = FrameOf(MaxNtypes, MaxNnei, 1, [a \in {0} |-> 0], [a \in {0} |-> 1])
    /\ frozen = NoGraphDef
    /\ system = NoSystem

SpecInputStats == InitInputStats /\ [][ComputeInputStats]_vars

(***************************************************************************)
(* Claims                                                                  *)
(***************************************************************************)
MaskCalled == call.op = "build_type_exclude_mask"

\* the mask value of channel ch of slot k of atom a
MaskAt(a, k, ch) == Get(mask)[a][4 * k + ch]
\* the (center type, neighbor type) of slot k of atom a in the call
CenterTypeOf(a) == call.atype[a]
NeighborTypeOf(a, k) == call.nei_type_vec[a * call.sel[1] + k]

\* C1, as stated: the mask of every channel of a slot is 0 if (center type,
\* neighbor type) is in the exclusion list and 1 otherwise, for every
\* exclusion list, symmetric or not.
C1_AsStated ==
    MaskCalled =>
      \A a \in 0..(call.shape0 - 1), k \in 0..(call.sel[1] - 1), ch \in 0..3 :
        MaskAt(a, k, ch) =
          IF <<CenterTypeOf(a), NeighborTypeOf(a, k)>> \in call.exclude_types
          THEN 0 ELSE 1

IsSymmetric(excl) == \A p \in excl : <<p[2], p[1]>> \in excl

\* What build_type_exclude_mask computes (beside C1): the mask of every
\* channel of a slot is 0 if (neighbor type, center type) is in the exclusion
\* list and 1 otherwise; for a symmetric exclusion list that is the same as
\* (center type, neighbor type) being in it.
C1_MaskByNeighborThenCenter ==
    MaskCalled =>
      /\ \A a \in 0..(call.shape0 - 1), k \in 0..(call.sel[1] - 1), ch \in 0..3 :
           MaskAt(a, k, ch) =
             IF <<NeighborTypeOf(a, k), CenterTypeOf(a)>> \in call.exclude_types
             THEN 0 ELSE 1
      /\ IsSymmetric(call.exclude_types) => C1_AsStated

\* C1, its case: a call with a list that is not symmetric, one slot masked
\* whose (center type, neighbor type) is not in the list, and one slot of an
\* existing neighbor not masked
C1_Witness ==
    /\ MaskCalled
    /\ ~IsSymmetric(call.exclude_types)
    /\ \E a \in 0..(call.shape0 - 1), k \in 0..(call.sel[1] - 1) :
         /\ MaskAt(a, k, 0) = 0
         /\ <<CenterTypeOf(a), NeighborTypeOf(a, k)>> \notin call.exclude_types
    /\ \E a \in 0..(call.shape0 - 1), k \in 0..(call.sel[1] - 1) :
         /\ MaskAt(a, k, 3) = 1
         /\ NeighborTypeOf(a, k) < call.ntypes

(***************************************************************************)
(* Claims about the graph of a build                                       *)
(***************************************************************************)
\* the last build got past the assertion and the compression test
Built == run # None /\ Get(run).built
\* ... and its kernels ran without error
BuiltOk == Built /\ Get(run).err = NoError

Nnei == sel_a[1]
Slots == 0..(Nnei - 1)
Atoms == 0..(feed.nloc - 1)
IsValid(a, k) == feed.nmask[a * Nnei + k] = 1
ValidCount(a) == Cardinality({k \in Slots : IsValid(a, k)})
\* what _scaled_dot_attn computed in layer l (from 1) for the atom a
Attn(l, a) == Get(run).filter.lower.layers[l][a]

\* C2: for an atom with at least one valid neighbor and at least one padded
\* slot, in every layer every padded key has the pre-softmax score exactly
\* -(2^33), and in every valid query row the softmax weight of every padded
\* key is 0 and the weights of the valid keys sum to 1.
C2_PaddedKeysGetNoWeight ==
    Built =>
      \A l \in 1..attn_layer, a \in Atoms :
        (ValidCount(a) >= 1 /\ ValidCount(a) < Nnei) =>
          /\ \A i \in Slots, j \in Slots :
                ~IsValid(a, j) => Attn(l, a).pre[i][j] = Wide(-1, 0)
          /\ \A i \in Slots :
                IsValid(a, i) =>
                  /\ \A j \in Slots :
                        ~IsValid(a, j) => Attn(l, a).attn_weight.num[i][j] = 0
                  /\ Attn(l, a).attn_weight.den[i] > 0
                  /\ Sum([j \in Slots |->
                             IF IsValid(a, j)
                             THEN Attn(l, a).attn_weight.num[i][j] ELSE 0],
                         0, Nnei - 1)
                     = Attn(l, a).attn_weight.den[i]

\* C2, its case: two layers built, an atom with one valid neighbor and one
\* padded slot; the valid slot has weight 1 in its own row
C2_Witness ==
    /\ Built
    /\ attn_layer = 2
    /\ \E a \in Atoms :
         /\ ValidCount(a) = 1
         /\ Nnei > 1
         /\ \E i \in Slots :
              /\ IsValid(a, i)
              /\ Attn(2, a).attn_weight.num[i][i] = Attn(2, a).attn_weight.den[i]
              /\ Attn(2, a).attn_weight.num[i][i] > 0

\* the frame f with the slots of the atom a rearranged: slot k holds what
\* slot p[k] held (features, neighbor type, validity flag)
PermuteSlots(f, a, p) ==
    LET from(j) == IF j \div Nnei = a THEN a * Nnei + p[j % Nnei] ELSE j
    IN [f EXCEPT
          !.nei_type_vec = [j \in DOMAIN f.nei_type_vec |-> f.nei_type_vec[from(j)]],
          !.nmask = [j \in DOMAIN f.nmask |-> f.nmask[from(j)]],
          !.descrpt = [q \in DOMAIN f.descrpt |->
                          f.descrpt[4 * from(q \div 4) + (q % 4)]]]

SlotOrders(S) == { p \in [S -> S] : \A x, y \in S : p[x] = p[y] => x = y }

\* the descriptor and qmat of the atom a are those the same descriptor
\* computes for a after any rearrangement of a's slots
SameAt(r2, a) ==
    /\ r2.err = NoError
    /\ r2.filter.result[a] = Get(dout)[a]
    /\ r2.filter.qmat[a] = Get(qmat)[a]

PermutationInvariantAt(a) ==
    \A p \in SlotOrders(Slots) :
      LET f2 == PermuteSlots(feed, a, p)
      IN SameAt(pass_filter(f2.descrpt, Get(atype_nloc), Self, f2, TRUE), a)

\* C3: permuting the neighbor slots of an atom (features, types and validity
\* flags alike) leaves the descriptor and qmat of that atom unchanged, for
\* every configuration.
C3_PermutationInvariance ==
    (BuiltOk /\ ~compress) => \A a \in Atoms : PermutationInvariantAt(a)

\* C3 with one-sided type embedding only
C3_OneSidePermutationInvariance ==
    (BuiltOk /\ ~compress /\ type_one_side) =>
        \A a \in Atoms : PermutationInvariantAt(a)

\* C3, its case: a two-sided descriptor with attention built on a frame of
\* two atoms of different types, one of them with a valid and a padded slot
C3_Witness ==
    /\ BuiltOk
    /\ ~type_one_side
    /\ attn_layer >= 1
    /\ feed.nloc = 2
    /\ feed.atype[0] # feed.atype[1]
    /\ \E a \in Atoms : ValidCount(a) = 1

\* the embedding width W
Width == LastNeuron(filter_neuron)
\* R of the atom a: the environment matrix the embedding was built from,
\* slot k, channel ch
R(a, k, ch) == Get(run).inputs_i[a][4 * k + ch]
\* E of the atom a: the attended embedding of slot k, column w (from 1)
E(a, k, w) == Get(run).filter.lower.E[a * Nnei + k][w]
\* the entry (ch, w) of R^T . E of the atom a, not yet divided
RtE(a, ch, w) == Sum([k \in Slots |-> R(a, k, ch) * E(a, k, w)], 0, Nnei - 1)
\* the neighbor count G is divided by
NeighborCount == IF original_sel = None THEN Nnei ELSE SumSeq(Get(original_sel))

\* C4: the descriptor of every atom is flatten(G^T . G2), of length
\* W * axis_neuron, G = R^T . E / nnei with nnei the number of slots when
\* original_sel is unset and the sum of original_sel otherwise, G2 the first
\* axis_neuron columns of G.
C4_DescriptorIsGtG2 ==
    BuiltOk =>
      \A a \in Atoms :
        /\ DOMAIN Get(dout)[a].num = 0..(Width * n_axis_neuron - 1)
        /\ Get(dout)[a].den = NeighborCount * NeighborCount
        /\ \A w \in 1..Width, x \in 1..n_axis_neuron :
              Get(dout)[a].num[(w - 1) * n_axis_neuron + (x - 1)]
              = Sum([ch \in 0..3 |-> RtE(a, ch, w) * RtE(a, ch, x)], 0, 3)

\* C4, its case: original_sel set to more than the slots, attention built,
\* an atom whose descriptor is not zero
C4_Witness ==
    /\ BuiltOk
    /\ original_sel # None
    /\ NeighborCount > Nnei
    /\ attn_layer >= 1
    /\ n_axis_neuron < Width
    /\ \E a \in Atoms, q \in 0..(Width * n_axis_neuron - 1) :
         Get(dout)[a].num[q] # 0

\* the flattened qmat of every atom has length 3 * W and is scaled by the
\* neighbor count
QmatShape(a) ==
    /\ DOMAIN Get(qmat)[a].num = 0..(3 * Width - 1)
    /\ Get(qmat)[a].den = NeighborCount

\* C5, as stated: qmat of every atom is rows 1..3 of G, flattened in the
\* layout 3 x W: the entry (c, w) is at c * W + w.
C5_AsStated ==
    BuiltOk =>
      \A a \in Atoms :
        /\ QmatShape(a)
        /\ \A c \in 0..2, w \in 1..Width :
              Get(qmat)[a].num[c * Width + (w - 1)] = RtE(a, 1 + c, w)

\* C5, amended: qmat of every atom is rows 1..3 of G (the radial row 0 left
\* out), of length 3 * W, flattened in the layout W x 3: the entry (c, w)
\* is at w * 3 + c.
C5_QmatIsWidthByThree ==
    BuiltOk =>
      \A a \in Atoms :
        /\ QmatShape(a)
        /\ \A c \in 0..2, w \in 1..Width :
              Get(qmat)[a].num[(w - 1) * 3 + c] = RtE(a, 1 + c, w)

\* C5, its case: a built descriptor and an atom whose qmat reads differently
\* in the two layouts
C5_Witness ==
    /\ BuiltOk
    /\ \E a \in Atoms, c \in 0..2, w \in 1..Width :
         /\ RtE(a, 1 + c, w) # 0
         /\ Get(qmat)[a].num[(w - 1) * 3 + c] = RtE(a, 1 + c, w)
         /\ Get(qmat)[a].num[c * Width + (w - 1)] # RtE(a, 1 + c, w)

\* the row of the embedded pair table for the center type c and the
\* neighbor type n (a row of zeros when the table has no such row)
PairEmbedding(c, n) ==
    LET rows == feed.te_rows
        idx == n * rows + c
    IN IF InRange(rows * rows, idx)
       THEN embedding_net(two_side_type_embedding(idx, rows, ntypes),
                          2 * TebdDim, filter_neuron, "_two_side_ebd", Self.wid)
       ELSE [w \in 1..Width |-> 0]

\* C6: with two-sided type embedding, the pair embedding mixed with the base
\* embedding of slot k of atom a is the one of the pair (type of atom a,
\* neighbor type of slot k of atom a), for every atom and slot.
C6_PairOfOwnCenter ==
    (Built /\ ~type_one_side) =>
      \A a \in Atoms, k \in Slots :
        Get(run).filter.lower.two_embd[a * Nnei + k]
        = PairEmbedding(Get(atype_nloc)[a], feed.nei_type_vec[a * Nnei + k])

\* C6, its case: a two-sided descriptor built on two atoms of different
\* types, each with a valid neighbor
C6_Witness ==
    /\ BuiltOk
    /\ ~type_one_side
    /\ feed.nloc = 2
    /\ feed.atype[0] # feed.atype[1]
    /\ \A a \in Atoms : ValidCount(a) >= 1

\* the step is a build called without a type embedding (input_dict None or
\* without the entry)
BuildWithoutTypeEmbedding == call'.op = "build" /\ ~call'.has_type_embedding

\* C7: a build without a type embedding ends in an error with no part of the
\* graph built and no field of the descriptor assigned (t_avg / t_std, the
\* environment-matrix op, descrpt, nmask, the diagnostics).
C7_FailsFastNothingBuilt ==
    [][ BuildWithoutTypeEmbedding =>
          /\ call'.err.kind = "AssertionError"
          /\ UNCHANGED <<graph, t_avg, t_std, descrpt, nei_type_vec, nmask,
                         negative_mask, atype_nloc, attn_weight,
                         angular_weight, attn_weight_final>> ]_vars

\* C7, its case: the first build of a descriptor, called without a type
\* embedding, has ended in the assertion error
C7_Witness ==
    /\ call.op = "build"
    /\ ~call.has_type_embedding
    /\ call.err.kind = "AssertionError"
    /\ ~Built
    /\ dout = None
    /\ t_avg # None
    /\ <<"op", "prod_env_mat_a_mix">> \in graph

\* the nodes of the graph that are embedding nets or attention layers
NetNodes(g) == { n \in g : n[1] \in {"embedding_net", "attention_layer"} }

\* C8: with compression enabled every build ends in a fatal error, whatever
\* the other options, and it creates no embedding net and no attention layer.
C8_CompressIsFatal ==
    [][ (call'.op = "build" /\ compress) =>
          /\ call'.err.kind \in {"RuntimeError", "AssertionError"}
          /\ call'.has_type_embedding => call'.err.kind = "RuntimeError"
          /\ ~Get(run').built
          /\ NetNodes(graph') = NetNodes(graph)
          /\ UNCHANGED <<dout, qmat>> ]_vars

\* C8, its case: compression enabled on a descriptor that was never built,
\* then a build with a type embedding, with and without attention layers
C8_Witness ==
    /\ compress
    /\ call.op = "build"
    /\ call.has_type_embedding
    /\ call.err.kind = "RuntimeError"
    /\ NetNodes(graph) = {}
    /\ attn_layer >= 1
    /\ ~type_one_side

(***************************************************************************)
(* Claims about init_variables                                             *)
(***************************************************************************)
Restored == call.op = "init_variables"

\* the parameter path of layer i: attention_layer_{i}{suffix}/
\* layer_normalization/{prm} for layer 0, attention_layer_{i}{suffix}/
\* layer_normalization_{i}/{prm} for a layer i >= 1
ParameterPath(i, prm) ==
    IF i = 0
    THEN <<"attention_layer_", "0">> \o call.suffix
             \o <<"/layer_normalization", "/", prm>>
    ELSE <<"attention_layer_">> \o Digits(i) \o call.suffix
             \o <<"/layer_normalization", "_">> \o Digits(i) \o <<"/", prm>>

\* the parameters the checkpoint of the call lacks, as (layer, parameter)
Lacking ==
    { e \in (0..(attn_layer - 1)) \X {"beta", "gamma"} :
        ParameterPath(e[1], e[2]) \notin DOMAIN call.graph_def.attention }

\* e comes before every other lacking parameter in the order they are read
ReadFirst(e) ==
    \A o \in Lacking :
        \/ e[1] < o[1]
        \/ (e[1] = o[1] /\ (e[2] = "beta" \/ o[2] = "gamma"))

\* C9: if the checkpoint lacks the beta or gamma of some layer below
\* attn_layer, init_variables fails with a lookup failure that names the
\* path of the lacking parameter (the first one read when several lack); it
\* fails this way in no other case, and so never with attn_layer = 0.
C9_MissingParameterIsNamed ==
    Restored =>
      /\ Lacking # {} =>
            /\ call.err.kind = "KeyError"
            /\ \E e \in Lacking :
                  /\ ReadFirst(e)
                  /\ call.err.key = ParameterPath(e[1], e[2])
      /\ Lacking = {} => call.err = NoError
      /\ attn_layer = 0 => call.err = NoError

\* C9, its case: with two layers and a suffix, the checkpoint lacks only
\* gamma of layer 1 and the failure names it
C9_Witness ==
    /\ Restored
    /\ attn_layer = 2
    /\ call.suffix # <<>>
    /\ Lacking = {<<1, "gamma">>}
    /\ call.err.kind = "KeyError"
    /\ call.err.key = ParameterPath(1, "gamma")

\* what a further call with the checkpoint and the suffix of the last one
\* would leave behind
Again == init_variables(beta, gamma, attn_layer, call.graph_def, call.suffix)

\* C10: a second call of init_variables with the same checkpoint and suffix
\* leaves beta, gamma and attention_layer_variables as the first call left
\* them, and no call changes davg, dstd, seed, the configuration or a field
\* assigned by build (the diagnostics among them).
C10_RestoreIsIdempotent ==
    /\ [](Restored =>
            /\ Again.beta = beta
            /\ Again.gamma = gamma
            /\ Again.attention_layer_variables = attention_layer_variables
            /\ Again.embedding_net_variables = embedding_net_variables
            /\ Again.err = call.err)
    /\ [][call'.op = "init_variables" =>
            UNCHANGED <<cfgVars, davg, dstd, seed, bldVars, run, mask>>]_vars

\* C10, its case: a call that restored both layers from the checkpoint, to
\* values that differ from those of the constructor
C10_Witness ==
    /\ Restored
    /\ attn_layer = 2
    /\ call.err = NoError
    /\ seed # None
    /\ beta[1] # Zeros(Width)
    /\ gamma[0] # Ones(Width)

(***************************************************************************)
(* Claims about _compute_dstats_sys_smth (SpecStat).                       *)
(***************************************************************************)
StatCalled == call.op = "_compute_dstats_sys_smth"

\* the entries of dd_all of the frame ff that belong to the center atoms
\* whose type in the type array of the frame is t, in the order of the atoms
OwnTypeSlots(ff, t) ==
    Flatten([a \in 1..system.nloc |->
               IF system.atype[ff][a - 1] = t
               THEN SubSeq(system.dd_all[ff], (a - 1) * ndescrpt_of(sel_a) + 1,
                           a * ndescrpt_of(sel_a))
               ELSE <<>>])

RECURSIVE OwnTypeFrames(_, _, _)
\* the statistics of the type t frame by frame, from the frame ff on
OwnTypeFrames(acc, ff, t) ==
    IF ff > system.nframes THEN acc
    ELSE OwnTypeFrames(accumulate(acc, compute_block(OwnTypeSlots(ff, t))), ff + 1, t)

\* the five statistics taken over the slots of the atoms of type t
OverOwnType(t, mixed_type) ==
    IF mixed_type THEN OwnTypeFrames(zero_block, 1, t)
    ELSE compute_block(Flatten([ff \in 1..system.nframes |-> OwnTypeSlots(ff, t)]))

\* every frame lists its atoms by increasing type
SortedByType ==
    \A ff \in 1..system.nframes : \A a, b \in 0..(system.nloc - 1) :
        a < b => system.atype[ff][a] <= system.atype[ff][b]

\* C11: in both modes the statistics returned for the type t (radial sum, its
\* squares, angular sum / 3, its squares / 3, slot count) are those of the
\* slots of the center atoms whose type in the frame's type array is t,
\* whatever the order of the atoms in the frame.
C11_AsStated ==
    StatCalled => \A t \in 0..(ntypes - 1) : call.ret[t] = OverOwnType(t, call.mixed_type)

\* what the code guarantees beside C11: the same when every frame lists its
\* atoms by increasing type
C11_WhenSortedByType ==
    (StatCalled /\ SortedByType) =>
        \A t \in 0..(ntypes - 1) : call.ret[t] = OverOwnType(t, call.mixed_type)

\* C11, its case: the mixed mode was run on a frame that lists an atom of
\* type 1 before an atom of type 0, the two atoms holding different rows
C11_Witness ==
    /\ StatCalled
    /\ call.mixed_type
    /\ system.nloc = 2
    /\ system.atype[1][0] = 1
    /\ system.atype[1][1] = 0
    /\ OwnTypeSlots(1, 0) # OwnTypeSlots(1, 1)

(***************************************************************************)
(* Claims about the attention layers (SpecBuild).                          *)
(***************************************************************************)
\* the layers the loop of _attention_layers ran, in the order it ran them
Steps == Get(run).filter.lower.steps

\* the embedding handed to _attention_layers, per flat slot
Embedding == Get(run).filter.lower.embedding

\* a tensor with one row of the last embedding width per flat slot
HasEmbeddingShape(x) ==
    /\ DOMAIN x = 0..(feed.nloc * Nnei - 1)
    /\ \A j \in DOMAIN x : DOMAIN x[j] = 1..Width

\* C12: the attention stack is a linear sequence: the layers 0..attn_layer-1
\* run once each in increasing order with no early exit, the first on the
\* embedding and every other on the output of the one before, inputs and
\* outputs all have the last embedding width, and what reaches the
\* descriptor assembly is the output of the last layer, or with attn_layer = 0
\* the embedding itself.
C12_LayersAreALinearSequence ==
    BuiltOk =>
        /\ Len(Steps) = attn_layer
        /\ \A k \in 1..Len(Steps) :
             /\ Steps[k].index = k - 1
             /\ Steps[k].input = IF k = 1 THEN Embedding ELSE Steps[k - 1].output
             /\ HasEmbeddingShape(Steps[k].input)
             /\ HasEmbeddingShape(Steps[k].output)
        /\ Get(run).filter.lower.E =
             IF attn_layer = 0 THEN Embedding ELSE Steps[attn_layer].output
        /\ Len(Get(run).filter.lower.layers) = attn_layer

\* C12, its case: two layers ran, the second changing what the first gave
C12_Witness ==
    /\ BuiltOk
    /\ attn_layer = 2
    /\ Steps[1].output # Embedding
    /\ Steps[2].output # Steps[1].output
    /\ att_n # Width

\* C12, the case of no layer: a build with attn_layer = 0 on a frame with a
\* neighbor
C12_WitnessNoLayer ==
    /\ BuiltOk
    /\ attn_layer = 0
    /\ ValidCount(0) >= 1

\* the flat slot of the slot k of the atom a
FlatSlot(a, k) == a * Nnei + k

\* the direction vectors handed to the attention layers, per flat slot
InputR == Get(run).filter.lower.input_r

\* C13: in every attention layer the weights are made in this order: the
\* scores Q.K^T are masked by neighbor and get the negative penalty, then
\* comes the softmax (and the row mask), then only if attn_dotr the
\* element-wise product with input_r . input_r^T, then only if attn_mask the
\* zeroing of the diagonal with every other entry kept, then the product with
\* V; nothing after the softmax divides the weights again.
C13_WeightPipelineIsOrdered ==
    BuiltOk =>
      \A l \in 1..attn_layer : \A a \in Atoms :
        LET s == Attn(l, a)
            st == Steps[l]
            w0 == s.attn_weight
            w1 == s.attn_weight_final
            w2 == s.applied
        IN \A i \in Slots :
             /\ \A j \in Slots :
                  /\ s.pre[i][j] =
                       MaskScores(Dot(st.Q[FlatSlot(a, i)], st.K[FlatSlot(a, j)], att_n),
                                  Get(nmask)[FlatSlot(a, j)],
                                  Get(negative_mask)[FlatSlot(a, j)])
                  /\ w0.num[i][j] = softmax(s.pre[i], Nnei, att_n).num[j]
                                      * Get(nmask)[FlatSlot(a, i)]
                  /\ s.angular_weight[i][j] =
                       Dot(InputR[FlatSlot(a, i)], InputR[FlatSlot(a, j)], 3)
                  /\ IF attn_dotr
                     THEN w1.num[i][j] = w0.num[i][j] * s.angular_weight[i][j]
                     ELSE w1.num[i][j] = w0.num[i][j]
                  /\ IF attn_mask
                     THEN w2.num[i][j] = IF i = j THEN 0 ELSE w1.num[i][j]
                     ELSE w2.num[i][j] = w1.num[i][j]
             /\ w0.den[i] = softmax(s.pre[i], Nnei, att_n).den
             /\ w1.den[i] = w0.den[i] * (IF attn_dotr THEN FX * FX ELSE 1)
             /\ w2.den[i] = w1.den[i]
             /\ \A c \in 1..att_n :
                  s.output[i][c] =
                     Quot(Sum([j \in Slots |-> w2.num[i][j] * st.V[FlatSlot(a, j)][c]],
                              0, Nnei - 1),
                          w2.den[i])

\* C13, its case: a layer with attn_dotr and attn_mask on an atom with two
\* neighbors, where the gating changed a weight that is then applied to a
\* row of V that is not zero, and the diagonal held weight before its zeroing
C13_Witness ==
    /\ BuiltOk
    /\ attn_layer >= 1
    /\ attn_dotr
    /\ attn_mask
    /\ ValidCount(0) = 2
    /\ Attn(1, 0).attn_weight_final.num[0][0] # 0
    /\ Attn(1, 0).applied.num[0][0] = 0
    /\ Attn(1, 0).applied.num[0][1] # 0
    /\ Attn(1, 0).angular_weight[0][1] # FX * FX
    /\ Steps[1].V[FlatSlot(0, 1)] # Zeros(att_n)

\* the names given to the values a diagnostic record holds
Recorded(rec, i) == Get(Get(rec)[i])

\* C14: after a build, for every layer i and every configuration the three
\* diagnostic records of the first atom are populated (the attention weights,
\* the angular matrix, the final weights), and the final weights recorded are
\* the weights applied to V in that layer.
C14_AsStated ==
    BuiltOk =>
      \A i \in 0..(attn_layer - 1) :
        /\ Get(attn_weight)[i] # None
        /\ Get(angular_weight)[i] # None
        /\ Get(attn_weight_final)[i] # None
        /\ Recorded(attn_weight, i) = Attn(i + 1, 0).attn_weight
        /\ Recorded(angular_weight, i) = Attn(i + 1, 0).angular_weight
        /\ Recorded(attn_weight_final, i) = Attn(i + 1, 0).applied

\* what the code records beside C14: the attention weights always; the
\* angular matrix and the final weights only with attn_dotr, the final
\* weights as they are before the diagonal is zeroed
C14_RecordedOnlyWithDotr ==
    BuiltOk =>
      \A i \in 0..(attn_layer - 1) :
        /\ Recorded(attn_weight, i) = Attn(i + 1, 0).attn_weight
        /\ IF attn_dotr
           THEN /\ Recorded(angular_weight, i) = Attn(i + 1, 0).angular_weight
                /\ Recorded(attn_weight_final, i) = Attn(i + 1, 0).attn_weight_final
           ELSE /\ Get(angular_weight)[i] = None
                /\ Get(attn_weight_final)[i] = None

\* C14, its case: a descriptor of two layers without attn_dotr was built on
\* a frame whose first atom has two neighbors
C14_Witness ==
    /\ BuiltOk
    /\ attn_layer = 2
    /\ ~attn_dotr
    /\ ValidCount(0) = 2
    /\ Get(attn_weight)[1] # None

\* C14, the case of attn_mask: the final weights recorded differ from the
\* weights applied
C14_WitnessSelfMask ==
    /\ BuiltOk
    /\ attn_layer >= 1
    /\ attn_dotr
    /\ attn_mask
    /\ Recorded(attn_weight_final, 0) # Attn(1, 0).applied

(***************************************************************************)
(* Claims about the parameters build reads (SpecFrozen).                   *)
(***************************************************************************)
\* C15: no build changes davg, dstd, beta or gamma, whatever the builds
\* before it; a build of a descriptor whose davg and dstd are unset
\* initializes t_avg and t_std with zeros and ones and leaves davg and dstd
\* unset, and one whose statistics are set initializes them with these.
C15_BuildKeepsStatistics ==
    /\ [][call'.op = "build" =>
            /\ UNCHANGED <<davg, dstd, beta, gamma>>
            /\ t_avg' = Some(IF davg = None THEN StatOf(ntypes, 0) ELSE Get(davg))
            /\ t_std' = Some(IF dstd = None THEN StatOf(ntypes, 1) ELSE Get(dstd))]_vars
    /\ []((call.op = "build" /\ davg = None) =>
            /\ dstd = None
            /\ t_avg = Some(StatOf(ntypes, 0))
            /\ t_std = Some(StatOf(ntypes, 1)))

\* C15, its case: a descriptor with finalized statistics and restored layer
\* normalization was built, after an earlier build
C15_Witness ==
    /\ call.op = "build"
    /\ call.err = NoError
    /\ davg # None
    /\ Get(davg) # StatOf(ntypes, 0)
    /\ t_avg = davg
    /\ attn_layer = 2
    /\ beta[0] # Zeros(Width)
    /\ attention_layer_variables # None

\* C15, the case of unset statistics: a build that used the defaults
C15_WitnessUnset ==
    /\ call.op = "build"
    /\ call.err = NoError
    /\ davg = None
    /\ t_avg # None

(***************************************************************************)
(* Claims about the lookup table of the exclusion mask (SpecMask).         *)
(***************************************************************************)
\* the flattened index idx_i + idx_j of slot k of atom a in the call
MaskIndex(a, k) == CenterTypeOf(a) * (call.ntypes + 1) + NeighborTypeOf(a, k)
\* the table of the call and its number of entries
MaskTable == type_mask(call.exclude_types, call.ntypes)
MaskTableSize == Cardinality(DOMAIN MaskTable)

\* C16: the lookup table has exactly ntypes * (ntypes + 1) entries; the index
\* center * (ntypes + 1) + neighbor is inside it for every center type in
\* 0..ntypes-1 (which is where build clips the types to) and every neighbor
\* type in 0..ntypes, hence for every slot of the call; and every channel of
\* a slot whose neighbor type is the sentinel ntypes has mask 1, the
\* exclusion list naming only types in 0..ntypes-1.
C16_TableCoversEveryPair ==
    MaskCalled =>
      /\ MaskTableSize = call.ntypes * (call.ntypes + 1)
      /\ DOMAIN MaskTable = 0..(MaskTableSize - 1)
      /\ \A c \in 0..(call.ntypes - 1), n \in 0..call.ntypes :
           InRange(MaskTableSize, c * (call.ntypes + 1) + n)
      /\ \A raw \in (-1)..(call.ntypes + 1), n \in 0..call.ntypes :
           InRange(MaskTableSize,
                   clip_atype([a \in {0} |-> raw], 1, call.ntypes)[0]
                     * (call.ntypes + 1) + n)
      /\ \A a \in 0..(call.shape0 - 1), k \in 0..(call.sel[1] - 1) :
           /\ InRange(MaskTableSize, MaskIndex(a, k))
           /\ \A ch \in 0..3 :
                /\ MaskAt(a, k, ch) = MaskTable[MaskIndex(a, k)]
                /\ NeighborTypeOf(a, k) = call.ntypes => MaskAt(a, k, ch) = 1

\* C16, its case: a call with two types and a non-empty exclusion list on a
\* frame with a padding slot of an atom of the last type, which is the
\* largest index of the table, next to a slot that is masked out, of an atom
\* whose type is in an excluded pair
C16_Witness ==
    /\ MaskCalled
    /\ call.ntypes = 2
    /\ call.exclude_types # {}
    /\ \E a \in 0..(call.shape0 - 1), k \in 0..(call.sel[1] - 1) :
         /\ NeighborTypeOf(a, k) = call.ntypes
         /\ MaskIndex(a, k) = MaskTableSize - 1
         /\ MaskAt(a, k, 0) = 1
         /\ \E e \in call.exclude_types : e[1] = CenterTypeOf(a) \/ e[2] = CenterTypeOf(a)
    /\ \E a \in 0..(call.shape0 - 1), k \in 0..(call.sel[1] - 1) :
         MaskAt(a, k, 0) = 0


(***************************************************************************)
(* Claims about excluded pairs of types (SpecBuild).                       *)
(***************************************************************************)
\* the frame f with the slot k of the atom a holding no neighbor
PadSlot(f, a, k) ==
    [f EXCEPT
       !.nei_type_vec = [j \in DOMAIN f.nei_type_vec |->
                            IF j = a * Nnei + k THEN ntypes ELSE f.nei_type_vec[j]],
       !.nmask = [j \in DOMAIN f.nmask |->
                            IF j = a * Nnei + k THEN 0 ELSE f.nmask[j]],
       !.descrpt = [q \in DOMAIN f.descrpt |->
                            IF q \div 4 = a * Nnei + k THEN 0 ELSE f.descrpt[q]]]

\* the frame f with the features of the slot k of the atom a replaced by
\* the given row of four
WithFeatures(f, a, k, row) ==
    [f EXCEPT
       !.descrpt = [q \in DOMAIN f.descrpt |->
                            IF q \div 4 = a * Nnei + k THEN row[(q % 4) + 1]
                            ELSE f.descrpt[q]]]

\* the slot k of the atom a holds a neighbor whose pair with a is excluded
ExcludedSlot(a, k) ==
    /\ IsValid(a, k)
    /\ <<Get(atype_nloc)[a], feed.nei_type_vec[a * Nnei + k]>> \in exclude_types

\* the descriptor and qmat of the atom a are the same on the frames f1, f2
SameOutputAt(f1, f2, a) ==
    LET r1 == pass_filter(f1.descrpt, Get(atype_nloc), Self, f1, TRUE)
        r2 == pass_filter(f2.descrpt, Get(atype_nloc), Self, f2, TRUE)
    IN (r1.err = NoError /\ r2.err = NoError) =>
          /\ r1.filter.result[a] = r2.filter.result[a]
          /\ r1.filter.qmat[a] = r2.filter.qmat[a]

\* the type embedding holds a row for the padding type
HasPaddingRow == feed.te_rows = ntypes + 1

\* the features an excluded neighbor is given
ExcludedFeatures == { FeatMenu[1], FeatMenu[2], FeatMenu[4] }

\* C17, as stated: for an atom with a slot that holds a neighbor of an
\* excluded pair, the descriptor and qmat of the atom are those of the frame
\* where that slot holds no neighbor, whatever the features of the excluded
\* neighbor (the type embedding having a row for the padding type).
C17_AsStated ==
    (BuiltOk /\ HasPaddingRow) =>
      \A a \in Atoms, k \in Slots :
        ExcludedSlot(a, k) =>
          \A row \in ExcludedFeatures :
            SameOutputAt(WithFeatures(feed, a, k, row), PadSlot(feed, a, k), a)

\* C17 without attention layers: there the excluded neighbor and the
\* padding give the same descriptor and qmat
C17_WithoutAttentionLayers ==
    (BuiltOk /\ HasPaddingRow /\ attn_layer = 0) =>
      \A a \in Atoms, k \in Slots :
        ExcludedSlot(a, k) =>
          \A row \in ExcludedFeatures :
            SameOutputAt(WithFeatures(feed, a, k, row), PadSlot(feed, a, k), a)

\* the features of an excluded neighbor never matter
C17_ExcludedFeaturesDoNotMatter ==
    (BuiltOk /\ HasPaddingRow) =>
      \A a \in Atoms, k \in Slots :
        ExcludedSlot(a, k) =>
          \A row \in ExcludedFeatures :
            SameOutputAt(WithFeatures(feed, a, k, row), feed, a)

\* C17, its case: a descriptor with attention and an excluded pair was built
\* on a frame where an atom has an excluded neighbor next to a neighbor that
\* is not excluded
C17_Witness ==
    /\ BuiltOk
    /\ HasPaddingRow
    /\ attn_layer >= 1
    /\ exclude_types # {}
    /\ \E a \in Atoms, k \in Slots, j \in Slots :
         /\ ExcludedSlot(a, k)
         /\ IsValid(a, j)
         /\ ~ExcludedSlot(a, j)
         /\ \E i \in DOMAIN Get(dout)[a].num : Get(dout)[a].num[i] # 0


\* the radial input of the embedding net of slot k of the atom a
RadialInput(a, k) == Get(run).filter.lower.xyz_scatter[FlatSlot(a, k)][1]
\* the raw feature ch of slot k of the atom a
RawFeature(a, k, ch) == feed.descrpt[4 * FlatSlot(a, k) + ch]

\* C18: in a descriptor with excluded pairs the mask has been built and, for
\* every slot of an excluded pair, the radial input of the embedding net,
\* the direction input_r and the four channels of the row of R are zero,
\* while every other slot keeps its raw features in the radial input and R;
\* in a descriptor without excluded pairs no mask is built and the radial
\* input and R are the raw features.
C18_MaskAppliedBeforeAnyUse ==
    Built =>
      /\ Get(run).masked = (exclude_types # {})
      /\ exclude_types = {} => mask = None
      /\ \A a \in Atoms, k \in Slots :
           IF ExcludedSlot(a, k)
           THEN /\ mask # None
                /\ \A ch \in 0..3 : MaskAt(a, k, ch) = 0 /\ R(a, k, ch) = 0
                /\ RadialInput(a, k) = 0
                /\ InputR[FlatSlot(a, k)] = Zeros(3)
           ELSE /\ \A ch \in 0..3 : R(a, k, ch) = RawFeature(a, k, ch)
                /\ RadialInput(a, k) = RawFeature(a, k, 0)
                /\ InputR[FlatSlot(a, k)] =
                     l2_normalize([q \in 1..3 |-> RawFeature(a, k, q)], 3)

\* C18, its case: a descriptor with an excluded pair was built on a frame
\* with a neighbor of that pair, whose raw features are not zero, next to a
\* neighbor that is kept
C18_Witness ==
    /\ Built
    /\ exclude_types # {}
    /\ \E a \in Atoms, k \in Slots, j \in Slots :
         /\ ExcludedSlot(a, k)
         /\ RawFeature(a, k, 0) # 0
         /\ \E q \in 1..3 : RawFeature(a, k, q) # 0
         /\ RadialInput(a, k) = 0
         /\ IsValid(a, j)
         /\ ~ExcludedSlot(a, j)
         /\ RadialInput(a, j) # 0

\* C18, the case of no exclusion: a descriptor without excluded pairs was
\* built on a frame with a neighbor
C18_WitnessNoExclusion ==
    /\ Built
    /\ exclude_types = {}
    /\ mask = None
    /\ \E a \in Atoms, k \in Slots : IsValid(a, k) /\ RadialInput(a, k) # 0


(***************************************************************************)
(* Claims about the two modes of the statistics (SpecStat).                *)
(***************************************************************************)
\* the mixed mode was called on a system every frame of which holds
\* natoms_vec
MixedOnUniform == StatCalled /\ call.mixed_type /\ IsUniform(system)

\* what the uniform mode returns on the system
UniformResult ==
    compute_dstats_sys_smth(system.dd_all, system.natoms_vec, FALSE,
                            system.real_natoms_vec, ntypes, ndescrpt_of(sel_a))

\* what the uniform mode returns for the type t on the frame ff alone
UniformOfFrame(ff, t) ==
    uniform_frames(<<system.dd_all[ff]>>, system.natoms_vec, ndescrpt_of(sel_a), t)

RECURSIVE RunningSum(_, _, _)
\* the floating-point sum, frame after frame, of the results of the uniform
\* mode on each frame alone
RunningSum(acc, ff, t) ==
    IF ff > system.nframes THEN acc
    ELSE RunningSum(accumulate(acc, UniformOfFrame(ff, t)), ff + 1, t)

C19_WitnessOneFrame ==
    /\ MixedOnUniform
    /\ system.nframes = 1
    /\ call.ret = UniformResult
    /\ \E t \in 0..(ntypes - 1) : call.ret[t].sumr # 0 /\ call.ret[t].suma # 0


\* every number the statistics return is zero or has FBits significant
\* bits at least, so that no rounding is to a whole number for lack of bits
C19_NoUnderflow ==
    StatCalled =>
      \A t \in 0..(ntypes - 1) :
        \A v \in { call.ret[t].sumr, call.ret[t].sumr2, call.ret[t].suma,
                   call.ret[t].suma2 } :
          v = 0 \/ v >= Pow2(FBits) \/ -v >= Pow2(FBits)


(***************************************************************************)
(* Claims about the rows of padded slots in the attention (SpecBuild).     *)
(***************************************************************************)
\* the row i of the weights w (fractions num / den) is all zero
ZeroRow(w, i) == \A j \in Slots : w.num[i][j] = 0

\* C20: in every layer, for every atom, the row of a padded query slot is
\* all zero in the weights after the softmax and in the weights applied to
\* V, and its output row is the zero vector; so for an atom without any
\* valid neighbor the whole weight matrix is zero and so is the output,
\* although the softmax alone gives every entry of such an atom 1 / nnei.
C20_PaddedQueryRowsAreZero ==
    Built =>
      \A l \in 1..attn_layer, a \in Atoms :
        /\ \A i \in Slots :
             ~IsValid(a, i) =>
               /\ ZeroRow(Attn(l, a).attn_weight, i)
               /\ ZeroRow(Attn(l, a).applied, i)
               /\ Attn(l, a).attn_weight.den[i] > 0
               /\ Attn(l, a).output[i] = Zeros(att_n)
        /\ ValidCount(a) = 0 =>
             \A i \in Slots :
               /\ ZeroRow(Attn(l, a).attn_weight, i)
               /\ Attn(l, a).output[i] = Zeros(att_n)
               /\ \A j \in Slots :
                    softmax(Attn(l, a).pre[i], Nnei, att_n).num[j] * Nnei
                      = softmax(Attn(l, a).pre[i], Nnei, att_n).den

\* C20, its case: two layers built on a frame of two atoms, one without any
\* valid neighbor and one with a valid and a padded slot, the valid row of
\* which carries weight and the padded slot of which holds a value vector
\* that is not zero
C20_Witness ==
    /\ Built
    /\ attn_layer = 2
    /\ \E a \in Atoms : ValidCount(a) = 0
    /\ \E a \in Atoms, i \in Slots, k \in Slots :
         /\ IsValid(a, i)
         /\ ~IsValid(a, k)
         /\ ~ZeroRow(Attn(2, a).attn_weight, i)
         /\ Steps[2].V[FlatSlot(a, k)] # Zeros(att_n)


(***************************************************************************)
(* Claims about the lookups of the type embedding (SpecBuild).             *)
(***************************************************************************)
\* the index _filter_lower looks up for the slot k of the atom a, and the
\* number of rows of the table it looks it up in
LookupIndex(a, k) ==
    IF type_one_side THEN feed.nei_type_vec[FlatSlot(a, k)]
    ELSE Get(run).filter.lower.two_side_index[FlatSlot(a, k)]
LookupRows == IF type_one_side THEN feed.te_rows ELSE feed.te_rows * feed.te_rows

\* the type embedding given has one row per type and no row for the padding
NoPaddingRow == feed.te_rows = ntypes

\* C21, as stated: with a type embedding of ntypes rows the index looked up
\* is inside the table (of ntypes rows with one side, ntypes * ntypes rows
\* with two sides) for every slot, padding slots included.
C21_AsStated ==
    (Built /\ NoPaddingRow) =>
      \A a \in Atoms, k \in Slots : InRange(LookupRows, LookupIndex(a, k))

\* what the code guarantees with a type embedding of ntypes rows: the index
\* is inside the table exactly for the slots that hold a neighbor, and the
\* build has no lookup error exactly when no slot is padding or the kernel
\* is the one that yields zeros for such an index
C21_InRangeForNeighborsOnly ==
    (Built /\ NoPaddingRow) =>
      /\ \A a \in Atoms, k \in Slots :
           InRange(LookupRows, LookupIndex(a, k)) <=> IsValid(a, k)
      /\ (Get(run).err = NoError)
           <=> (feed.device = "gpu" \/ \A a \in Atoms : ValidCount(a) = Nnei)

\* ... and with a type embedding of ntypes + 1 rows: every index is inside
C21_InRangeWithPaddingRow ==
    (Built /\ HasPaddingRow) =>
      /\ \A a \in Atoms, k \in Slots : InRange(LookupRows, LookupIndex(a, k))
      /\ Get(run).err = NoError

\* C21, its case: a two-sided descriptor built with a type embedding of
\* ntypes rows on a frame with a padding slot next to a neighbor, on the
\* kernel that checks the index
C21_Witness ==
    /\ Built
    /\ NoPaddingRow
    /\ ~type_one_side
    /\ feed.device = "cpu"
    /\ \E a \in Atoms, k \in Slots, j \in Slots :
         /\ ~IsValid(a, k)
         /\ IsValid(a, j)
         /\ LookupIndex(a, k) = ntypes * ntypes + Get(atype_nloc)[FlatSlot(a, k) % feed.nloc]
         /\ Get(run).err = InvalidArgumentError


(***************************************************************************)
(* Claims about compute_input_stats (SpecInputStats).                      *)
(***************************************************************************)
InputStatsCalled == call.op = "compute_input_stats"

\* the five lists of the statistics d
FiveLists(d) == <<d.sumr, d.suma, d.sumn, d.sumr2, d.suma2>>

\* the statistics of the systems of the last call alone
OwnStats ==
    input_stats_loop(empty_stat_dict, 1, call.data, call.mixed_type, ntypes,
                     ndescrpt_of(sel_a))

\* C22: in multi-task mode the five lists of stat_dict always have the same
\* length and davg and dstd stay unset; every call makes each list longer by
\* the number of systems it was given, keeps the entries the list had and
\* appends the statistics of its own systems, and leaves davg and dstd
\* alone; in single-task mode stat_dict is not there and every call hands
\* the statistics of its own systems, and nothing else, to the merge step.
C22_StatDictOnlyGrows ==
    /\ [](multi_task =>
            /\ \A i \in 1..5 :
                 /\ Len(FiveLists(Get(stat_dict))[i]) = Len(Get(stat_dict).sumr)
                 /\ InputStatsCalled =>
                      SubSeq(FiveLists(Get(stat_dict))[i],
                             Len(Get(stat_dict).sumr) - Len(call.data) + 1,
                             Len(Get(stat_dict).sumr))
                        = FiveLists(OwnStats)[i]
            /\ davg = None
            /\ dstd = None)
    /\ [](~multi_task =>
            /\ stat_dict = None
            /\ InputStatsCalled => call.merged = Some(OwnStats))
    /\ [][(multi_task /\ call'.op = "compute_input_stats") =>
            /\ \A i \in 1..5 :
                 /\ Len(FiveLists(Get(stat_dict'))[i])
                      = Len(FiveLists(Get(stat_dict))[i]) + Len(call'.data)
                 /\ SubSeq(FiveLists(Get(stat_dict'))[i], 1,
                           Len(FiveLists(Get(stat_dict))[i]))
                      = FiveLists(Get(stat_dict))[i]
            /\ call'.merged = None
            /\ UNCHANGED <<davg, dstd>>]_vars

\* C22, its case: in multi-task mode a call with two systems was made after
\* an earlier call, and stat_dict holds three systems with statistics that
\* are not all the same
C22_Witness ==
    /\ multi_task
    /\ InputStatsCalled
    /\ Len(call.data) = 2
    /\ Len(Get(stat_dict).sumr) = 3
    /\ Get(stat_dict).sumr[1] # Get(stat_dict).sumr[3]
    /\ Get(stat_dict).sumn[1] # Get(stat_dict).sumn[3]

\* C22, the single-task case: a call with two systems was handed to the
\* merge step
C22_WitnessSingleTask ==
    /\ ~multi_task
    /\ InputStatsCalled
    /\ call.merged # None
    /\ Len(Get(call.merged).sumr) = 2
    /\ davg # None


(***************************************************************************)
(* Claims about a failing init_variables (SpecRestore).                    *)
(***************************************************************************)
\* the step is a call of init_variables that fails for a lacking parameter
RestoreFails == call'.op = "init_variables" /\ call'.err.kind = "KeyError"

\* the (layer, parameter) the failure of the step names
FailedAt(e) ==
    /\ e \in (0..(attn_layer - 1)) \X {"beta", "gamma"}
    /\ call'.err.key = SavedKey(e[1], call'.suffix, e[2])

\* the parameter o is read before the parameter e
ReadBefore(o, e) == o[1] < e[1] \/ (o[1] = e[1] /\ o[2] = "beta" /\ e[2] = "gamma")

\* the row the descriptor holds for the parameter e, before and after the step
RowBefore(e) == IF e[2] = "beta" THEN beta[e[1]] ELSE gamma[e[1]]
RowAfter(e) == IF e[2] = "beta" THEN beta'[e[1]] ELSE gamma'[e[1]]

\* C23, as stated: a call of init_variables that fails because a
\* normalization parameter is lacking leaves beta, gamma and
\* attention_layer_variables as they were before the call.
C23_AsStated ==
    [][RestoreFails => UNCHANGED <<beta, gamma, attention_layer_variables>>]_vars

\* what the code does on such a failure: attention_layer_variables and the
\* embedding-net variables are those of the checkpoint, every row read
\* before the lacking one holds the value of the checkpoint, and the lacking
\* row and every row after it are as before the call
C23_FailureKeepsRowsNotYetRead ==
    [][RestoreFails =>
         /\ attention_layer_variables'
              = Some(get_attention_layer_variables_from_graph_def(
                         call'.graph_def, call'.suffix))
         /\ embedding_net_variables'
              = super_init_variables(call'.graph_def, call'.suffix)
         /\ \E e \in (0..(attn_layer - 1)) \X {"beta", "gamma"} :
              /\ FailedAt(e)
              /\ \A o \in (0..(attn_layer - 1)) \X {"beta", "gamma"} :
                   IF ReadBefore(o, e)
                   THEN RowAfter(o)
                          = call'.graph_def.attention[SavedKey(o[1], call'.suffix, o[2])]
                   ELSE RowAfter(o) = RowBefore(o)]_vars

\* C23, its case: the call on a descriptor of two layers failed for the
\* lacking beta of layer 1, beta and gamma of layer 0 being in the
\* checkpoint with other values than the constructor's
C23_Witness ==
    /\ Restored
    /\ attn_layer = 2
    /\ call.err.kind = "KeyError"
    /\ Lacking = {<<1, "beta">>}
    /\ beta[0] # Zeros(Width)
    /\ gamma[0] # Ones(Width)
    /\ beta[1] = Zeros(Width)
    /\ attention_layer_variables # None

====
